---- MODULE Spec2Model ----
(***************************************************************************)
(* A model of the worksheet layer of xlsxwriter-rs: the Rust wrappers of   *)
(* libxlsxwriter/src/worksheet.rs and the ConditionalFormat builder of     *)
(* libxlsxwriter/src/conditional_formatting.rs, together with the sheet    *)
(* model of the wrapped native library.  The wrappers are translated from  *)
(* the Rust source.  The native library is not part of the Rust sources;   *)
(* its sheet model (cell grid, hyperlinks, merges, rule list, tables) is   *)
(* written from the specification and from the doc comments of the         *)
(* wrappers, and every such definition is marked "native" below.           *)
(***************************************************************************)
EXTENDS Integers, Sequences, FiniteSets, TLC

VARIABLES
    build,         \* "debug" | "release": whether integer overflow panics or wraps
    cells,         \* native: the sparse cell grid, <<row, col>> -> cell record
    hlinks,        \* native: <<row, col>> -> hyperlink target
    merges,        \* native: set of merged rectangles <<r1, c1, r2, c2>>
    cond_formats,  \* native: the sheet's conditional-format rule list
    tables,        \* native: the sheet's tables
    page_setup,    \* native: zoom, fit-to-pages, print scale, start page, paper
    panes,         \* native: the freeze / split / selection state of the sheet view
    row_options,   \* native: row -> the height and format set for that row
    col_options,   \* native: column -> the width and format set for that column
    cf,            \* the ConditionalFormat under construction (or NoRule)
    last,          \* the last operation: its name, arguments, native calls, result
    nops           \* number of worksheet operations called so far

vars == <<build, cells, hlinks, merges, cond_formats, tables, page_setup, panes,
          row_options, col_options, cf, last, nops>>

\* The worksheet as the native library holds it.
Sheet == <<cells, hlinks, merges, cond_formats, tables, page_setup, panes, row_options,
           col_options>>

\* The row and column sizes of the sheet.
Sizes == <<row_options, col_options>>

\* The page setup, the view and the sizes of the sheet.
Layout == <<page_setup, panes, Sizes>>

-----------------------------------------------------------------------------
\* Program constants

\* Rows are 0 .. LXW_ROW_MAX - 1 and columns 0 .. LXW_COL_MAX - 1.
LXW_ROW_MAX == 1048576
LXW_COL_MAX == 16384
\* WorksheetCol is a u16: column arithmetic is done modulo U16_MODULUS.
U16_MODULUS == 65536
\* std::ptr::null_mut() as a *mut lxw_format
NULL == 0

\* Bounds of the model
MaxOps == 2

\* lxw_error values that reach the wrapper (the native codes carry the names
\* of the specification's error taxonomy) and the wrapper's own error.
LXW_NO_ERROR == "LXW_NO_ERROR"
OutOfRange == "OutOfRange"
InvalidNumber == "InvalidNumber"
OverlappingMerge == "OverlappingMerge"
InvalidRule == "InvalidRule"
ParameterValidation == "ParameterValidation"
NUMBER_OF_COLUMNS_IS_NOT_MATCHED == "NUMBER_OF_COLUMNS_IS_NOT_MATCHED"

-----------------------------------------------------------------------------
\* Rust values

\* Option<T>: None, or Some(x).
None == <<>>
Some(x) == <<x>>

\* Result<(), XlsxError>, and the third way a call can end: a panic.
Ok == [tag |-> "Ok", error |-> LXW_NO_ERROR]
Err(code) == [tag |-> "Err", error |-> code]
Panic == [tag |-> "Panic", error |-> "panic"]

\* A mutant of to_result: the return code is dropped.
to_result_always_ok(rc) == Ok

\* A mutant of to_result: the comparison is inverted.
to_result_inverted(rc) == IF rc # LXW_NO_ERROR THEN Ok ELSE Err(rc)

\* The tail of every Result-returning wrapper:
\*   if result == LXW_NO_ERROR { Ok(()) } else { Err(XlsxError::new(result)) }
to_result(rc) == IF rc = LXW_NO_ERROR THEN Ok ELSE Err(rc)

\* A &str is a sequence of bytes; byte 0 is NUL.
HasNul(s) == \E i \in 1..Len(s) : s[i] = 0

\* CString::new(s): a NUL-terminated copy of s, an error if s holds a NUL.
CString_new(s) ==
    IF HasNul(s) THEN [ok |-> FALSE, bytes |-> <<>>]
    ELSE [ok |-> TRUE, bytes |-> Append(s, 0)]

\* native: the string the C side reads from a char pointer, up to the first NUL.
c_str(bytes) ==
    LET n == CHOOSE i \in 1..Len(bytes) :
                 bytes[i] = 0 /\ \A j \in 1..(i - 1) : bytes[j] # 0
    IN SubSeq(bytes, 1, n - 1)

\* A pointer to a struct: null, or the address of x.
NullPtr == <<>>
PtrTo(x) == <<x>>

\* A mutant of format_ptr: the format is dropped.
format_ptr_null(format) == NULL

\* format.map(|x| x.format).unwrap_or(std::ptr::null_mut())
format_ptr(format) == IF format = None THEN NULL ELSE format[1]

\* f64 values are tokens; these three are the non-finite ones.
NonFinite == {"NaN", "+Inf", "-Inf"}

-----------------------------------------------------------------------------
\* native: the sparse cell grid

\* A cell: its kind, its value under the name of its kind, and its format.
NumberCell(number, fmt) ==
    [kind |-> "number", value |-> [number |-> number], format |-> fmt]
StringCell(str, fmt) ==
    [kind |-> "string", value |-> [string |-> str], format |-> fmt]
FormulaCell(str, fmt) ==
    [kind |-> "formula", value |-> [formula |-> str], format |-> fmt]
BooleanCell(b, fmt) ==
    [kind |-> "boolean", value |-> [boolean |-> b], format |-> fmt]
BlankCell(fmt) ==
    [kind |-> "blank", value |-> [blank |-> TRUE], format |-> fmt]
DateTimeCell(dt, fmt) ==
    [kind |-> "datetime", value |-> [datetime |-> dt], format |-> fmt]
RichStringCell(runs, fmt) ==
    [kind |-> "rich_string", value |-> [runs |-> runs], format |-> fmt]

InRect(row, col, m) == m[1] <= row /\ row <= m[3] /\ m[2] <= col /\ col <= m[4]

\* A cell of a merged rectangle other than its top-left cell.
Covered(ms, row, col) ==
    \E m \in ms : InRect(row, col, m) /\ <<row, col>> # <<m[1], m[2]>>

\* set_cell "fails with OutOfRange if row/col exceed the maximum sheet extents".
check_dimensions(row, col) ==
    IF row >= LXW_ROW_MAX \/ col >= LXW_COL_MAX THEN OutOfRange ELSE LXW_NO_ERROR

\* The address checks of a cell write: the extents, then the merges (a covered
\* cell "cannot be independently written").
check_address(ms, row, col) ==
    IF check_dimensions(row, col) # LXW_NO_ERROR THEN check_dimensions(row, col)
    ELSE IF Covered(ms, row, col) THEN OverlappingMerge
    ELSE LXW_NO_ERROR

\* Storing a cell replaces what the grid held at its address.
insert_cell(grid, row, col, cell) ==
    [p \in (DOMAIN grid) \cup {<<row, col>>} |->
        IF p = <<row, col>> THEN cell ELSE grid[p]]

\* The grid without the cells at the addresses ps.
remove_cells(grid, ps) == [p \in (DOMAIN grid) \ ps |-> grid[p]]

\* native: the serializer, "serialize rows in ascending row order and, within a
\* row, columns in ascending column order"; one record per populated cell.
RECURSIVE ascending(_)
ascending(S) ==
    IF S = {} THEN <<>>
    ELSE LET least == CHOOSE x \in S : \A y \in S : x <= y
         IN  <<least>> \o ascending(S \ {least})

serialize_row(grid, row) ==
    LET cols == ascending({p[2] : p \in {q \in DOMAIN grid : q[1] = row}})
    IN  [i \in 1..Len(cols) |-> [row |-> row, col |-> cols[i], cell |-> grid[<<row, cols[i]>>]]]

RECURSIVE serialize_rows(_, _)
serialize_rows(grid, rows) ==
    IF rows = <<>> THEN <<>>
    ELSE serialize_row(grid, Head(rows)) \o serialize_rows(grid, Tail(rows))

serialize_sheet(grid) == serialize_rows(grid, ascending({p[1] : p \in DOMAIN grid}))

\* The outcome of a native cell write: the return code and the grid and
\* hyperlinks after it.
NativeFail(rc) == [rc |-> rc, cells |-> cells, hlinks |-> hlinks]
NativeStore(row, col, cell) ==
    [rc |-> LXW_NO_ERROR, cells |-> insert_cell(cells, row, col, cell), hlinks |-> hlinks]

\* set_cell(row, col, value, format?)
set_cell(row, col, cell) ==
    IF check_address(merges, row, col) # LXW_NO_ERROR
    THEN NativeFail(check_address(merges, row, col))
    ELSE NativeStore(row, col, cell)

worksheet_write_number(row, col, number, fmt) ==
    IF check_address(merges, row, col) # LXW_NO_ERROR
    THEN NativeFail(check_address(merges, row, col))
    ELSE IF number \in NonFinite THEN NativeFail(InvalidNumber)
    ELSE NativeStore(row, col, NumberCell(number, fmt))

worksheet_write_string(row, col, str, fmt) ==
    set_cell(row, col, StringCell(c_str(str), fmt))

worksheet_write_formula(row, col, str, fmt) ==
    set_cell(row, col, FormulaCell(c_str(str), fmt))

worksheet_write_boolean(row, col, value, fmt) ==
    set_cell(row, col, BooleanCell(value, fmt))

worksheet_write_datetime(row, col, dt, fmt) ==
    set_cell(row, col, DateTimeCell(dt, fmt))

\* "if you write an empty cell without formatting it is ignored"
worksheet_write_blank(row, col, fmt) ==
    IF fmt = NULL THEN NativeFail(LXW_NO_ERROR)
    ELSE set_cell(row, col, BlankCell(fmt))

\* The displayed string is the link itself until another write_* replaces it;
\* the link is kept apart from the cell's value.
worksheet_write_url(row, col, url, fmt) ==
    IF check_address(merges, row, col) # LXW_NO_ERROR
    THEN NativeFail(check_address(merges, row, col))
    ELSE [rc |-> LXW_NO_ERROR,
          cells |-> insert_cell(cells, row, col, StringCell(c_str(url), fmt)),
          hlinks |-> insert_cell(hlinks, row, col, c_str(url))]

\* The array of tuple pointers ends at its first null pointer; each tuple is a
\* (format, string) pair.
rich_runs(rich_text_ptr) ==
    LET n == CHOOSE i \in 1..Len(rich_text_ptr) :
                 rich_text_ptr[i] = NullPtr
                 /\ \A j \in 1..(i - 1) : rich_text_ptr[j] # NullPtr
    IN [i \in 1..(n - 1) |->
           [format |-> rich_text_ptr[i][1].format,
            string |-> c_str(rich_text_ptr[i][1].string)]]

\* "Excel doesn't allow ... an empty string fragment. For either of these
\* conditions a warning is raised and the input ... is ignored."
worksheet_write_rich_string(row, col, rich_text_ptr, fmt) ==
    IF check_address(merges, row, col) # LXW_NO_ERROR
    THEN NativeFail(check_address(merges, row, col))
    ELSE IF \E i \in 1..Len(rich_runs(rich_text_ptr)) :
               rich_runs(rich_text_ptr)[i].string = <<>>
    THEN NativeFail(ParameterValidation)
    ELSE NativeStore(row, col, RichStringCell(rich_runs(rich_text_ptr), fmt))

\* merge_range "writes the value into the top-left cell and marks the remaining
\* cells in the rectangle as covered (no value ...) -- fails with
\* OverlappingMerge if any cell in the rectangle is already part of another
\* merge"; the top-left write is a set_cell and has its extents check.
Overlaps(a, b) == a[1] <= b[3] /\ b[1] <= a[3] /\ a[2] <= b[4] /\ b[2] <= a[4]

RectCells(grid, m) == {p \in DOMAIN grid : InRect(p[1], p[2], m)}

worksheet_merge_range(first_row, first_col, last_row, last_col, str, fmt) ==
    LET m == <<first_row, first_col, last_row, last_col>> IN
    IF \E o \in merges : Overlaps(m, o)
    THEN [rc |-> OverlappingMerge, cells |-> cells, merges |-> merges]
    ELSE IF check_dimensions(first_row, first_col) # LXW_NO_ERROR
            \/ check_dimensions(last_row, last_col) # LXW_NO_ERROR
    THEN [rc |-> OutOfRange, cells |-> cells, merges |-> merges]
    ELSE [rc |-> LXW_NO_ERROR,
          cells |-> insert_cell(remove_cells(cells, RectCells(cells, m)),
                                first_row, first_col, StringCell(c_str(str), fmt)),
          merges |-> merges \cup {m}]

-----------------------------------------------------------------------------
\* The wrappers of worksheet.rs: cell writes

\* No call is made after a panic: the caller unwinds.
Running == last.result.tag # "Panic"

CanCall == Running /\ nops < MaxOps

\* What a cell write records about itself; its value argument goes under the
\* name of its type.
Called(op, row, col, value, format, calls, rc, result) ==
    [op |-> op, row |-> row, col |-> col, value |-> value, format |-> format,
     calls |-> calls, rc |-> rc, result |-> result]

\* The wrapper made its native call and turns the return code into a Result.
Returned(op, row, col, value, format, native) ==
    /\ cells' = native.cells
    /\ hlinks' = native.hlinks
    /\ last' = Called(op, row, col, value, format, 1, native.rc, to_result(native.rc))
    /\ nops' = nops + 1
    /\ UNCHANGED <<build, merges, cond_formats, tables, cf, Layout>>

\* CString::new(..).unwrap() panicked before the native call.
Unwound(op, row, col, value, format) ==
    /\ last' = Called(op, row, col, value, format, 0, "none", Panic)
    /\ nops' = nops + 1
    /\ UNCHANGED <<build, cells, hlinks, merges, cond_formats, tables, cf, Layout>>

\* A mutant of write_number: a number that is not finite is written as 0.0.
write_number_zeroed(row, col, number, format) ==
    /\ CanCall
    /\ Returned("write_number", row, col, [number |-> number], format,
                worksheet_write_number(row, col,
                                       IF number \in NonFinite THEN "0.0" ELSE number,
                                       format_ptr(format)))

write_number(row, col, number, format) ==
    /\ CanCall
    /\ Returned("write_number", row, col, [number |-> number], format,
                worksheet_write_number(row, col, number, format_ptr(format)))

\* A mutant of write_string: row and column change places in the native call.
write_string_transposed(row, col, text, format) ==
    /\ CanCall
    /\ IF CString_new(text).ok
       THEN Returned("write_string", row, col, [text |-> text], format,
                     worksheet_write_string(col, row, CString_new(text).bytes,
                                            format_ptr(format)))
       ELSE Unwound("write_string", row, col, [text |-> text], format)

write_string(row, col, text, format) ==
    /\ CanCall
    /\ IF CString_new(text).ok
       THEN Returned("write_string", row, col, [text |-> text], format,
                     worksheet_write_string(row, col, CString_new(text).bytes,
                                            format_ptr(format)))
       ELSE Unwound("write_string", row, col, [text |-> text], format)

write_formula(row, col, formula, format) ==
    /\ CanCall
    /\ IF CString_new(formula).ok
       THEN Returned("write_formula", row, col, [formula |-> formula], format,
                     worksheet_write_formula(row, col, CString_new(formula).bytes,
                                             format_ptr(format)))
       ELSE Unwound("write_formula", row, col, [formula |-> formula], format)

\* impl From<&DateTime> for lxw_datetime
to_lxw_datetime(datetime) ==
    [year |-> datetime.year, month |-> datetime.month, day |-> datetime.day,
     hour |-> datetime.hour, min |-> datetime.min, sec |-> datetime.second]

write_datetime(row, col, datetime, format) ==
    /\ CanCall
    /\ Returned("write_datetime", row, col, [datetime |-> datetime], format,
                worksheet_write_datetime(row, col, to_lxw_datetime(datetime),
                                         format_ptr(format)))

\* A mutant of write_url: the native call is the one of write_string.
write_url_as_string(row, col, url, format) ==
    /\ CanCall
    /\ IF CString_new(url).ok
       THEN Returned("write_url", row, col, [url |-> url], format,
                     worksheet_write_string(row, col, CString_new(url).bytes,
                                            format_ptr(format)))
       ELSE Unwound("write_url", row, col, [url |-> url], format)

write_url(row, col, url, format) ==
    /\ CanCall
    /\ IF CString_new(url).ok
       THEN Returned("write_url", row, col, [url |-> url], format,
                     worksheet_write_url(row, col, CString_new(url).bytes,
                                         format_ptr(format)))
       ELSE Unwound("write_url", row, col, [url |-> url], format)

write_boolean(row, col, value, format) ==
    /\ CanCall
    /\ Returned("write_boolean", row, col, [flag |-> value], format,
                worksheet_write_boolean(row, col, IF value THEN 1 ELSE 0,
                                        format_ptr(format)))

\* A mutant of write_blank: the format is not passed on.
write_blank_without_format(row, col, format) ==
    /\ CanCall
    /\ Returned("write_blank", row, col, [none |-> TRUE], format,
                worksheet_write_blank(row, col, NULL))

write_blank(row, col, format) ==
    /\ CanCall
    /\ Returned("write_blank", row, col, [none |-> TRUE], format,
                worksheet_write_blank(row, col, format_ptr(format)))

\* A mutant of rich_text_ptr_of: every tuple is given a null format.
rich_text_ptr_of_plain(text) ==
    [i \in 1..Len(text) |->
        PtrTo([format |-> NULL, string |-> CString_new(text[i][1]).bytes])]
    \o <<NullPtr>>

\* c_str: one NUL-terminated byte vector per fragment; rich_text: one tuple per
\* fragment; rich_text_ptr: one pointer per tuple, then a null pointer.
rich_text_ptr_of(text) ==
    [i \in 1..Len(text) |->
        PtrTo([format |-> format_ptr(text[i][2]),
               string |-> CString_new(text[i][1]).bytes])]
    \o <<NullPtr>>

\* A mutant of write_rich_string: empty fragments are left out of the call.
write_rich_string_skipping_empty(row, col, text, format) ==
    /\ CanCall
    /\ IF \A i \in 1..Len(text) : CString_new(text[i][1]).ok
       THEN Returned("write_rich_string", row, col, [rich |-> text], format,
                     worksheet_write_rich_string(
                         row, col,
                         rich_text_ptr_of(SelectSeq(text, LAMBDA x : x[1] # <<>>)),
                         format_ptr(format)))
       ELSE Unwound("write_rich_string", row, col, [rich |-> text], format)

write_rich_string(row, col, text, format) ==
    /\ CanCall
    /\ IF \A i \in 1..Len(text) : CString_new(text[i][1]).ok
       THEN Returned("write_rich_string", row, col, [rich |-> text], format,
                     worksheet_write_rich_string(row, col, rich_text_ptr_of(text),
                                                 format_ptr(format)))
       ELSE Unwound("write_rich_string", row, col, [rich |-> text], format)

\* What merge_range records about itself and leaves behind.
Merged(first_row, first_col, last_row, last_col, string, format, native) ==
    /\ cells' = native.cells
    /\ merges' = native.merges
    /\ last' = [op |-> "merge_range",
                rect |-> <<first_row, first_col, last_row, last_col>>,
                value |-> [text |-> string], format |-> format,
                calls |-> 1, rc |-> native.rc, result |-> to_result(native.rc)]
    /\ nops' = nops + 1
    /\ UNCHANGED <<build, hlinks, cond_formats, tables, cf, Layout>>

MergeUnwound(first_row, first_col, last_row, last_col, string, format) ==
    /\ last' = [op |-> "merge_range",
                rect |-> <<first_row, first_col, last_row, last_col>>,
                value |-> [text |-> string], format |-> format,
                calls |-> 0, rc |-> "none", result |-> Panic]
    /\ nops' = nops + 1
    /\ UNCHANGED <<build, cells, hlinks, merges, cond_formats, tables, cf, Layout>>

\* A mutant of merge_range: the first cell is passed as the last cell too.
merge_range_single_cell(first_row, first_col, last_row, last_col, string, format) ==
    /\ CanCall
    /\ IF CString_new(string).ok
       THEN Merged(first_row, first_col, last_row, last_col, string, format,
                   worksheet_merge_range(first_row, first_col, first_row, first_col,
                                         CString_new(string).bytes, format_ptr(format)))
       ELSE MergeUnwound(first_row, first_col, last_row, last_col, string, format)

merge_range(first_row, first_col, last_row, last_col, string, format) ==
    /\ CanCall
    /\ IF CString_new(string).ok
       THEN Merged(first_row, first_col, last_row, last_col, string, format,
                   worksheet_merge_range(first_row, first_col, last_row, last_col,
                                         CString_new(string).bytes, format_ptr(format)))
       ELSE MergeUnwound(first_row, first_col, last_row, last_col, string, format)

-----------------------------------------------------------------------------
\* The wrappers of worksheet.rs: tables

\* The value of a native enumerator: its position in the enumeration, from 0.
enum_value(enum, name) == CHOOSE i \in 0..(Len(enum) - 1) : enum[i + 1] = name

\* `value as u8`
as_u8(value) == value % 256

\* convert_bool: LXW_TRUE or LXW_FALSE as u8
convert_bool(value) == IF value THEN 1 ELSE 0

TableStyleTypes == {"Default", "Light", "Medium", "Dark"}

\* native: enum lxw_table_style_type
lxw_table_style_type ==
    <<"LXW_TABLE_STYLE_TYPE_DEFAULT", "LXW_TABLE_STYLE_TYPE_LIGHT",
      "LXW_TABLE_STYLE_TYPE_MEDIUM", "LXW_TABLE_STYLE_TYPE_DARK">>

\* impl From<TableStyleType> for u8, the match
TableStyleType_constant(t) ==
    CASE t = "Dark" -> "LXW_TABLE_STYLE_TYPE_DARK"
      [] t = "Light" -> "LXW_TABLE_STYLE_TYPE_LIGHT"
      [] t = "Medium" -> "LXW_TABLE_STYLE_TYPE_MEDIUM"
      [] t = "Default" -> "LXW_TABLE_STYLE_TYPE_DEFAULT"

\* impl From<TableStyleType> for u8
TableStyleType_into_u8(t) == as_u8(enum_value(lxw_table_style_type, TableStyleType_constant(t)))

\* impl Default for TableStyleType
TableStyleType_default == "Default"

\* A mutant of TableOptions_default: the total row is on.
TableOptions_default_with_total_row ==
    [name |-> None, no_header_row |-> FALSE, no_autofilter |-> FALSE,
     no_banded_rows |-> FALSE, banded_columns |-> FALSE, first_column |-> FALSE,
     last_column |-> FALSE, style_type |-> TableStyleType_default,
     style_type_number |-> 0, total_row |-> TRUE, columns |-> None]

\* #[derive(Default)] on TableOptions: None for the options, false for the
\* flags, 0 for the number, TableStyleType::default() for the style type.
TableOptions_default ==
    [name |-> None, no_header_row |-> FALSE, no_autofilter |-> FALSE,
     no_banded_rows |-> FALSE, banded_columns |-> FALSE, first_column |-> FALSE,
     last_column |-> FALSE, style_type |-> TableStyleType_default,
     style_type_number |-> 0, total_row |-> FALSE, columns |-> None]

\* native: the options of a table added with no options are all zero: no name,
\* no columns, every flag off, the default style type.
lxw_table_options_zeroed ==
    [name |-> NullPtr, no_header_row |-> 0, no_autofilter |-> 0, no_banded_rows |-> 0,
     banded_columns |-> 0, first_column |-> 0, last_column |-> 0,
     style_type |-> enum_value(lxw_table_style_type, "LXW_TABLE_STYLE_TYPE_DEFAULT"),
     style_type_number |-> 0, total_row |-> 0, columns |-> NullPtr]

\* native: the settings of a table, read from its options: the header row, the
\* autofilter and the banded rows are on unless turned off, the rest is off
\* unless turned on.
table_settings(user_options) ==
    LET o == IF user_options = NullPtr THEN lxw_table_options_zeroed ELSE user_options[1]
    IN [named |-> o.name # NullPtr,
        header_row |-> o.no_header_row = 0,
        autofilter |-> o.no_autofilter = 0,
        banded_rows |-> o.no_banded_rows = 0,
        banded_columns |-> o.banded_columns # 0,
        first_column |-> o.first_column # 0,
        last_column |-> o.last_column # 0,
        total_row |-> o.total_row # 0,
        style_type |-> o.style_type,
        style_type_number |-> o.style_type_number,
        has_columns |-> o.columns # NullPtr]

\* native: a table is a rectangular range with its options and the settings
\* read from them; it is refused when the range exceeds the sheet extents.
worksheet_add_table(first_row, first_col, last_row, last_col, user_options) ==
    IF check_dimensions(first_row, first_col) # LXW_NO_ERROR
       \/ check_dimensions(last_row, last_col) # LXW_NO_ERROR
    THEN [rc |-> OutOfRange, tables |-> tables]
    ELSE [rc |-> LXW_NO_ERROR,
          tables |-> Append(tables,
                            [range |-> <<first_row, first_col, last_row, last_col>>,
                             options |-> user_options,
                             settings |-> table_settings(user_options)])]

\* last_col - first_col + 1 on u16: each step overflows when its result leaves
\* 0 .. U16_MODULUS - 1; an overflow panics in a build with overflow checks
\* (debug) and wraps in one without (release).
u16_range_width(first_col, last_col) ==
    LET diff == last_col - first_col
        wrapped_diff == (diff + U16_MODULUS) % U16_MODULUS
        sum == wrapped_diff + 1
    IN [overflow |-> diff < 0 \/ sum >= U16_MODULUS,
        value |-> sum % U16_MODULUS]

\* options.as_ref().map(|x| x.columns.as_ref()
\*     .map(|y| y.len() != (last_col - first_col + 1).into())
\*     .unwrap_or(false)).unwrap_or(false)
columns_not_matched(options, first_col, last_col) ==
    /\ options # None
    /\ options[1].columns # None
    /\ Len(options[1].columns[1]) # u16_range_width(first_col, last_col).value

\* The width is only computed when there are options with columns.
width_overflows(options, first_col, last_col) ==
    /\ options # None
    /\ options[1].columns # None
    /\ u16_range_width(first_col, last_col).overflow

\* option_string_to_raw_pointer: CString::new(x).expect(..).into_raw(), or null.
option_string_to_raw_pointer(value) ==
    IF value = None THEN NullPtr ELSE PtrTo(CString_new(value[1]).bytes)

\* The strings of a TableColumn that go through option_string_to_raw_pointer.
column_strings(c) ==
    {o[1] : o \in {x \in {c.header, c.formula, c.total_string} : x # None}}

\* The strings of a TableOptions that go through option_string_to_raw_pointer.
table_strings(options) ==
    (IF options.name = None THEN {} ELSE {options.name[1]})
    \cup (IF options.columns = None THEN {}
          ELSE UNION {column_strings(options.columns[1][i]) :
                         i \in 1..Len(options.columns[1])})

\* impl From<TableColumn> for lxw_table_column
to_lxw_table_column(c) ==
    [header |-> option_string_to_raw_pointer(c.header),
     formula |-> option_string_to_raw_pointer(c.formula),
     total_string |-> option_string_to_raw_pointer(c.total_string)]

\* TableOptions::into_lxw_table_options.  The native `columns` field points into
\* c_columns, a vector local to the function: it is freed at the return, the
\* pointer dangles, and what the native call reads through it is the array as
\* written (intact) or something else.  The column records themselves are
\* returned to the caller and live on.
into_lxw_table_options(options, intact) ==
    [name |-> option_string_to_raw_pointer(options.name),
     no_header_row |-> convert_bool(options.no_header_row),
     no_autofilter |-> convert_bool(options.no_autofilter),
     no_banded_rows |-> convert_bool(options.no_banded_rows),
     banded_columns |-> convert_bool(options.banded_columns),
     first_column |-> convert_bool(options.first_column),
     last_column |-> convert_bool(options.last_column),
     style_type |-> TableStyleType_into_u8(options.style_type),
     style_type_number |-> options.style_type_number,
     total_row |-> convert_bool(options.total_row),
     columns |->
        IF options.columns = None THEN NullPtr
        ELSE PtrTo([freed |-> TRUE,
                    intact |-> intact,
                    array |-> IF intact
                              THEN [i \in 1..Len(options.columns[1]) |->
                                       to_lxw_table_column(options.columns[1][i])]
                              ELSE <<>>])]

TableCalled(first_row, first_col, last_row, last_col, options, calls, rc, result) ==
    [op |-> "add_table", rect |-> <<first_row, first_col, last_row, last_col>>,
     options |-> options, calls |-> calls, rc |-> rc, result |-> result]

add_table(first_row, first_col, last_row, last_col, options) ==
    /\ CanCall
    /\ nops' = nops + 1
    /\ UNCHANGED <<build, cells, hlinks, merges, cond_formats, cf, Layout>>
    /\ IF build = "debug" /\ width_overflows(options, first_col, last_col)
       THEN \* attempt to subtract / add with overflow
            /\ last' = TableCalled(first_row, first_col, last_row, last_col, options,
                                   0, "none", Panic)
            /\ UNCHANGED tables
       ELSE IF columns_not_matched(options, first_col, last_col)
       THEN /\ last' = TableCalled(first_row, first_col, last_row, last_col, options,
                                   0, "none", Err(NUMBER_OF_COLUMNS_IS_NOT_MATCHED))
            /\ UNCHANGED tables
       ELSE IF options # None /\ \E t \in table_strings(options[1]) : ~CString_new(t).ok
       THEN /\ last' = TableCalled(first_row, first_col, last_row, last_col, options,
                                   0, "none", Panic)
            /\ UNCHANGED tables
       ELSE \E intact \in BOOLEAN :
            LET c_options == IF options = None THEN NullPtr
                             ELSE PtrTo(into_lxw_table_options(options[1], intact))
                native == worksheet_add_table(first_row, first_col, last_row, last_col,
                                              c_options)
            IN /\ tables' = native.tables
               /\ last' = TableCalled(first_row, first_col, last_row, last_col, options,
                                      1, native.rc, to_result(native.rc))

-----------------------------------------------------------------------------
\* conditional_formatting.rs: the ConditionalFormat builder

\* enum ConditionalType, enum ConditionalCriteria: the variants in source order
ConditionalTypes ==
    <<"Cell", "Text", "TimePeriod", "Average", "Duplicate", "Unique", "Top", "Bottom",
      "Blanks", "NoBlanks", "Errors", "NoErrors", "Formula", "TwoColorScale",
      "ThreeColorScale", "DataBar", "IconSets">>

ConditionalCriterias ==
    <<"EqualTo", "NotEqualTo", "GreaterThan", "LessThan", "GreaterThanOrEqualTo",
      "LessThanOrEqualTo", "Between", "NotBetween", "TextContaining",
      "TextNotContaining", "TextBeginsWith", "TextEndsWith", "TimePeriodYesterday",
      "TimePeriodToday", "TimePeriodTomorrow", "TimePeriodLastSevenDays",
      "TimePeriodLastWeek", "TimePeriodThisWeek", "TimePeriodLastMonth",
      "TimePeriodThisMonth", "TimePeriodNextMonth", "AverageAbove", "AverageBelow",
      "AverageAboveOrEqual", "AverageBelowOrEqual", "AverageOneStdDevAbove",
      "AverageOneStdDevBelow", "AverageTwoStdDevAbove", "AverageTwoStdDevBelow",
      "AverageThreeStdDevAbove", "AverageThreeStdDevBelow", "TopOrBottomPercent">>

\* native: the enumerators of lxw_conditional_format_types and of
\* lxw_conditional_criteria in declaration order; an enumerator's value is its
\* position, counted from 0.
lxw_conditional_format_types ==
    <<"LXW_CONDITIONAL_TYPE_NONE", "LXW_CONDITIONAL_TYPE_CELL",
      "LXW_CONDITIONAL_TYPE_TEXT", "LXW_CONDITIONAL_TYPE_TIME_PERIOD",
      "LXW_CONDITIONAL_TYPE_AVERAGE", "LXW_CONDITIONAL_TYPE_DUPLICATE",
      "LXW_CONDITIONAL_TYPE_UNIQUE", "LXW_CONDITIONAL_TYPE_TOP",
      "LXW_CONDITIONAL_TYPE_BOTTOM", "LXW_CONDITIONAL_TYPE_BLANKS",
      "LXW_CONDITIONAL_TYPE_NO_BLANKS", "LXW_CONDITIONAL_TYPE_ERRORS",
      "LXW_CONDITIONAL_TYPE_NO_ERRORS", "LXW_CONDITIONAL_TYPE_FORMULA",
      "LXW_CONDITIONAL_2_COLOR_SCALE", "LXW_CONDITIONAL_3_COLOR_SCALE",
      "LXW_CONDITIONAL_DATA_BAR", "LXW_CONDITIONAL_TYPE_ICON_SETS",
      "LXW_CONDITIONAL_LAST">>

lxw_conditional_criteria ==
    <<"LXW_CONDITIONAL_CRITERIA_NONE", "LXW_CONDITIONAL_CRITERIA_EQUAL_TO",
      "LXW_CONDITIONAL_CRITERIA_NOT_EQUAL_TO", "LXW_CONDITIONAL_CRITERIA_GREATER_THAN",
      "LXW_CONDITIONAL_CRITERIA_LESS_THAN",
      "LXW_CONDITIONAL_CRITERIA_GREATER_THAN_OR_EQUAL_TO",
      "LXW_CONDITIONAL_CRITERIA_LESS_THAN_OR_EQUAL_TO",
      "LXW_CONDITIONAL_CRITERIA_BETWEEN", "LXW_CONDITIONAL_CRITERIA_NOT_BETWEEN",
      "LXW_CONDITIONAL_CRITERIA_TEXT_CONTAINING",
      "LXW_CONDITIONAL_CRITERIA_TEXT_NOT_CONTAINING",
      "LXW_CONDITIONAL_CRITERIA_TEXT_BEGINS_WITH",
      "LXW_CONDITIONAL_CRITERIA_TEXT_ENDS_WITH",
      "LXW_CONDITIONAL_CRITERIA_TIME_PERIOD_YESTERDAY",
      "LXW_CONDITIONAL_CRITERIA_TIME_PERIOD_TODAY",
      "LXW_CONDITIONAL_CRITERIA_TIME_PERIOD_TOMORROW",
      "LXW_CONDITIONAL_CRITERIA_TIME_PERIOD_LAST_7_DAYS",
      "LXW_CONDITIONAL_CRITERIA_TIME_PERIOD_LAST_WEEK",
      "LXW_CONDITIONAL_CRITERIA_TIME_PERIOD_THIS_WEEK",
      "LXW_CONDITIONAL_CRITERIA_TIME_PERIOD_NEXT_WEEK",
      "LXW_CONDITIONAL_CRITERIA_TIME_PERIOD_LAST_MONTH",
      "LXW_CONDITIONAL_CRITERIA_TIME_PERIOD_THIS_MONTH",
      "LXW_CONDITIONAL_CRITERIA_TIME_PERIOD_NEXT_MONTH",
      "LXW_CONDITIONAL_CRITERIA_AVERAGE_ABOVE",
      "LXW_CONDITIONAL_CRITERIA_AVERAGE_BELOW",
      "LXW_CONDITIONAL_CRITERIA_AVERAGE_ABOVE_OR_EQUAL",
      "LXW_CONDITIONAL_CRITERIA_AVERAGE_BELOW_OR_EQUAL",
      "LXW_CONDITIONAL_CRITERIA_AVERAGE_1_STD_DEV_ABOVE",
      "LXW_CONDITIONAL_CRITERIA_AVERAGE_1_STD_DEV_BELOW",
      "LXW_CONDITIONAL_CRITERIA_AVERAGE_2_STD_DEV_ABOVE",
      "LXW_CONDITIONAL_CRITERIA_AVERAGE_2_STD_DEV_BELOW",
      "LXW_CONDITIONAL_CRITERIA_AVERAGE_3_STD_DEV_ABOVE",
      "LXW_CONDITIONAL_CRITERIA_AVERAGE_3_STD_DEV_BELOW",
      "LXW_CONDITIONAL_CRITERIA_TOP_OR_BOTTOM_PERCENT">>

\* A mutant of ConditionalType_constant: every kind is given the constant of Cell.
ConditionalType_constant_of_cell(t) == "LXW_CONDITIONAL_TYPE_CELL"

\* ConditionalType::value, the match: the native constant of each kind.
ConditionalType_constant(t) ==
    CASE t = "Cell" -> "LXW_CONDITIONAL_TYPE_CELL"
      [] t = "Text" -> "LXW_CONDITIONAL_TYPE_TEXT"
      [] t = "TimePeriod" -> "LXW_CONDITIONAL_TYPE_TIME_PERIOD"
      [] t = "Average" -> "LXW_CONDITIONAL_TYPE_AVERAGE"
      [] t = "Duplicate" -> "LXW_CONDITIONAL_TYPE_DUPLICATE"
      [] t = "Unique" -> "LXW_CONDITIONAL_TYPE_UNIQUE"
      [] t = "Top" -> "LXW_CONDITIONAL_TYPE_TOP"
      [] t = "Bottom" -> "LXW_CONDITIONAL_TYPE_BOTTOM"
      [] t = "Blanks" -> "LXW_CONDITIONAL_TYPE_BLANKS"
      [] t = "NoBlanks" -> "LXW_CONDITIONAL_TYPE_NO_BLANKS"
      [] t = "Errors" -> "LXW_CONDITIONAL_TYPE_ERRORS"
      [] t = "NoErrors" -> "LXW_CONDITIONAL_TYPE_NO_ERRORS"
      [] t = "Formula" -> "LXW_CONDITIONAL_TYPE_FORMULA"
      [] t = "TwoColorScale" -> "LXW_CONDITIONAL_2_COLOR_SCALE"
      [] t = "ThreeColorScale" -> "LXW_CONDITIONAL_3_COLOR_SCALE"
      [] t = "DataBar" -> "LXW_CONDITIONAL_DATA_BAR"
      [] t = "IconSets" -> "LXW_CONDITIONAL_TYPE_ICON_SETS"

\* ConditionalType::value
ConditionalType_value(t) ==
    as_u8(enum_value(lxw_conditional_format_types, ConditionalType_constant(t)))

\* ConditionalCriteria::value, the match: the native constant of each criteria.
ConditionalCriteria_constant(c) ==
    CASE c = "EqualTo" -> "LXW_CONDITIONAL_CRITERIA_EQUAL_TO"
      [] c = "NotEqualTo" -> "LXW_CONDITIONAL_CRITERIA_NOT_EQUAL_TO"
      [] c = "GreaterThan" -> "LXW_CONDITIONAL_CRITERIA_GREATER_THAN"
      [] c = "LessThan" -> "LXW_CONDITIONAL_CRITERIA_LESS_THAN"
      [] c = "GreaterThanOrEqualTo" -> "LXW_CONDITIONAL_CRITERIA_GREATER_THAN_OR_EQUAL_TO"
      [] c = "LessThanOrEqualTo" -> "LXW_CONDITIONAL_CRITERIA_LESS_THAN_OR_EQUAL_TO"
      [] c = "Between" -> "LXW_CONDITIONAL_CRITERIA_BETWEEN"
      [] c = "NotBetween" -> "LXW_CONDITIONAL_CRITERIA_NOT_BETWEEN"
      [] c = "TextContaining" -> "LXW_CONDITIONAL_CRITERIA_TEXT_CONTAINING"
      [] c = "TextNotContaining" -> "LXW_CONDITIONAL_CRITERIA_TEXT_NOT_CONTAINING"
      [] c = "TextBeginsWith" -> "LXW_CONDITIONAL_CRITERIA_TEXT_BEGINS_WITH"
      [] c = "TextEndsWith" -> "LXW_CONDITIONAL_CRITERIA_TEXT_ENDS_WITH"
      [] c = "TimePeriodYesterday" -> "LXW_CONDITIONAL_CRITERIA_TIME_PERIOD_YESTERDAY"
      [] c = "TimePeriodToday" -> "LXW_CONDITIONAL_CRITERIA_TIME_PERIOD_TODAY"
      [] c = "TimePeriodTomorrow" -> "LXW_CONDITIONAL_CRITERIA_TIME_PERIOD_TOMORROW"
      [] c = "TimePeriodLastSevenDays" -> "LXW_CONDITIONAL_CRITERIA_TIME_PERIOD_LAST_7_DAYS"
      [] c = "TimePeriodLastWeek" -> "LXW_CONDITIONAL_CRITERIA_TIME_PERIOD_LAST_WEEK"
      [] c = "TimePeriodThisWeek" -> "LXW_CONDITIONAL_CRITERIA_TIME_PERIOD_THIS_WEEK"
      [] c = "TimePeriodLastMonth" -> "LXW_CONDITIONAL_CRITERIA_TIME_PERIOD_LAST_MONTH"
      [] c = "TimePeriodThisMonth" -> "LXW_CONDITIONAL_CRITERIA_TIME_PERIOD_THIS_MONTH"
      [] c = "TimePeriodNextMonth" -> "LXW_CONDITIONAL_CRITERIA_TIME_PERIOD_NEXT_MONTH"
      [] c = "AverageAbove" -> "LXW_CONDITIONAL_CRITERIA_AVERAGE_ABOVE"
      [] c = "AverageBelow" -> "LXW_CONDITIONAL_CRITERIA_AVERAGE_BELOW"
      [] c = "AverageAboveOrEqual" -> "LXW_CONDITIONAL_CRITERIA_AVERAGE_ABOVE_OR_EQUAL"
      [] c = "AverageBelowOrEqual" -> "LXW_CONDITIONAL_CRITERIA_AVERAGE_BELOW_OR_EQUAL"
      [] c = "AverageOneStdDevAbove" -> "LXW_CONDITIONAL_CRITERIA_AVERAGE_1_STD_DEV_ABOVE"
      [] c = "AverageOneStdDevBelow" -> "LXW_CONDITIONAL_CRITERIA_AVERAGE_1_STD_DEV_BELOW"
      [] c = "AverageTwoStdDevAbove" -> "LXW_CONDITIONAL_CRITERIA_AVERAGE_2_STD_DEV_ABOVE"
      [] c = "AverageTwoStdDevBelow" -> "LXW_CONDITIONAL_CRITERIA_AVERAGE_2_STD_DEV_BELOW"
      [] c = "AverageThreeStdDevAbove" -> "LXW_CONDITIONAL_CRITERIA_AVERAGE_3_STD_DEV_ABOVE"
      [] c = "AverageThreeStdDevBelow" -> "LXW_CONDITIONAL_CRITERIA_AVERAGE_3_STD_DEV_BELOW"
      [] c = "TopOrBottomPercent" -> "LXW_CONDITIONAL_CRITERIA_TOP_OR_BOTTOM_PERCENT"

\* ConditionalCriteria::value
ConditionalCriteria_value(c) ==
    as_u8(enum_value(lxw_conditional_criteria, ConditionalCriteria_constant(c)))

\* enum ConditionalRuleType and the native enum lxw_conditional_format_rule_types
ConditionalRuleTypes ==
    <<"Minimum", "Number", "Percent", "Percentile", "Formula", "Maximum">>

lxw_conditional_format_rule_types ==
    <<"LXW_CONDITIONAL_RULE_TYPE_NONE", "LXW_CONDITIONAL_RULE_TYPE_MINIMUM",
      "LXW_CONDITIONAL_RULE_TYPE_NUMBER", "LXW_CONDITIONAL_RULE_TYPE_PERCENT",
      "LXW_CONDITIONAL_RULE_TYPE_PERCENTILE", "LXW_CONDITIONAL_RULE_TYPE_FORMULA",
      "LXW_CONDITIONAL_RULE_TYPE_MAXIMUM", "LXW_CONDITIONAL_RULE_TYPE_AUTO_MIN",
      "LXW_CONDITIONAL_RULE_TYPE_AUTO_MAX">>

\* ConditionalRuleType::value, the match
ConditionalRuleType_constant(x) ==
    CASE x = "Minimum" -> "LXW_CONDITIONAL_RULE_TYPE_MINIMUM"
      [] x = "Number" -> "LXW_CONDITIONAL_RULE_TYPE_NUMBER"
      [] x = "Percent" -> "LXW_CONDITIONAL_RULE_TYPE_PERCENT"
      [] x = "Percentile" -> "LXW_CONDITIONAL_RULE_TYPE_PERCENTILE"
      [] x = "Formula" -> "LXW_CONDITIONAL_RULE_TYPE_FORMULA"
      [] x = "Maximum" -> "LXW_CONDITIONAL_RULE_TYPE_MAXIMUM"

\* ConditionalRuleType::value
ConditionalRuleType_value(x) ==
    as_u8(enum_value(lxw_conditional_format_rule_types, ConditionalRuleType_constant(x)))

\* enum ConditionalBarDirection and the native enum lxw_conditional_format_bar_direction
ConditionalBarDirections ==
    <<"Context", "RightToLeft", "LeftToRight">>

lxw_conditional_format_bar_direction ==
    <<"LXW_CONDITIONAL_BAR_DIRECTION_CONTEXT",
      "LXW_CONDITIONAL_BAR_DIRECTION_RIGHT_TO_LEFT",
      "LXW_CONDITIONAL_BAR_DIRECTION_LEFT_TO_RIGHT">>

\* ConditionalBarDirection::value, the match
ConditionalBarDirection_constant(x) ==
    CASE x = "Context" -> "LXW_CONDITIONAL_BAR_DIRECTION_CONTEXT"
      [] x = "RightToLeft" -> "LXW_CONDITIONAL_BAR_DIRECTION_RIGHT_TO_LEFT"
      [] x = "LeftToRight" -> "LXW_CONDITIONAL_BAR_DIRECTION_LEFT_TO_RIGHT"

\* ConditionalBarDirection::value
ConditionalBarDirection_value(x) ==
    as_u8(enum_value(lxw_conditional_format_bar_direction, ConditionalBarDirection_constant(x)))

\* enum ConditionalBarAxisPosition and the native enum lxw_conditional_bar_axis_position
ConditionalBarAxisPositions ==
    <<"Automatic", "Midpoint", "None">>

lxw_conditional_bar_axis_position ==
    <<"LXW_CONDITIONAL_BAR_AXIS_AUTOMATIC", "LXW_CONDITIONAL_BAR_AXIS_MIDPOINT",
      "LXW_CONDITIONAL_BAR_AXIS_NONE">>

\* ConditionalBarAxisPosition::value, the match
ConditionalBarAxisPosition_constant(x) ==
    CASE x = "Automatic" -> "LXW_CONDITIONAL_BAR_AXIS_AUTOMATIC"
      [] x = "Midpoint" -> "LXW_CONDITIONAL_BAR_AXIS_MIDPOINT"
      [] x = "None" -> "LXW_CONDITIONAL_BAR_AXIS_NONE"

\* ConditionalBarAxisPosition::value
ConditionalBarAxisPosition_value(x) ==
    as_u8(enum_value(lxw_conditional_bar_axis_position, ConditionalBarAxisPosition_constant(x)))

\* enum ConditionalIconType and the native enum lxw_conditional_icon_types
ConditionalIconTypes ==
    <<"ThreeArrowsColored", "ThreeArrowsGray", "ThreeFlags",
      "ThreeTrafficLightsUnrimmed", "ThreeTrafficLightsRimmed", "ThreeSigns",
      "ThreeSymbolsCircled", "FourArrowsColored", "FourArrowsGray", "FourRedToBlack",
      "FourRating", "FourTrafficLights", "FiveArrowsColored", "FiveArrowsGray",
      "FiveRatings", "FiveQuarters">>

lxw_conditional_icon_types ==
    <<"LXW_CONDITIONAL_ICONS_3_ARROWS_COLORED", "LXW_CONDITIONAL_ICONS_3_ARROWS_GRAY",
      "LXW_CONDITIONAL_ICONS_3_FLAGS",
      "LXW_CONDITIONAL_ICONS_3_TRAFFIC_LIGHTS_UNRIMMED",
      "LXW_CONDITIONAL_ICONS_3_TRAFFIC_LIGHTS_RIMMED", "LXW_CONDITIONAL_ICONS_3_SIGNS",
      "LXW_CONDITIONAL_ICONS_3_SYMBOLS_CIRCLED",
      "LXW_CONDITIONAL_ICONS_4_ARROWS_COLORED", "LXW_CONDITIONAL_ICONS_4_ARROWS_GRAY",
      "LXW_CONDITIONAL_ICONS_4_RED_TO_BLACK", "LXW_CONDITIONAL_ICONS_4_RATINGS",
      "LXW_CONDITIONAL_ICONS_4_TRAFFIC_LIGHTS",
      "LXW_CONDITIONAL_ICONS_5_ARROWS_COLORED", "LXW_CONDITIONAL_ICONS_5_ARROWS_GRAY",
      "LXW_CONDITIONAL_ICONS_5_RATINGS", "LXW_CONDITIONAL_ICONS_5_QUARTERS">>

\* ConditionalIconType::value, the match
ConditionalIconType_constant(x) ==
    CASE x = "ThreeArrowsColored" -> "LXW_CONDITIONAL_ICONS_3_ARROWS_COLORED"
      [] x = "ThreeArrowsGray" -> "LXW_CONDITIONAL_ICONS_3_ARROWS_GRAY"
      [] x = "ThreeFlags" -> "LXW_CONDITIONAL_ICONS_3_FLAGS"
      [] x = "ThreeTrafficLightsUnrimmed" -> "LXW_CONDITIONAL_ICONS_3_TRAFFIC_LIGHTS_UNRIMMED"
      [] x = "ThreeTrafficLightsRimmed" -> "LXW_CONDITIONAL_ICONS_3_TRAFFIC_LIGHTS_RIMMED"
      [] x = "ThreeSigns" -> "LXW_CONDITIONAL_ICONS_3_SIGNS"
      [] x = "ThreeSymbolsCircled" -> "LXW_CONDITIONAL_ICONS_3_SYMBOLS_CIRCLED"
      [] x = "FourArrowsColored" -> "LXW_CONDITIONAL_ICONS_4_ARROWS_COLORED"
      [] x = "FourArrowsGray" -> "LXW_CONDITIONAL_ICONS_4_ARROWS_GRAY"
      [] x = "FourRedToBlack" -> "LXW_CONDITIONAL_ICONS_4_RED_TO_BLACK"
      [] x = "FourRating" -> "LXW_CONDITIONAL_ICONS_4_RATINGS"
      [] x = "FourTrafficLights" -> "LXW_CONDITIONAL_ICONS_4_TRAFFIC_LIGHTS"
      [] x = "FiveArrowsColored" -> "LXW_CONDITIONAL_ICONS_5_ARROWS_COLORED"
      [] x = "FiveArrowsGray" -> "LXW_CONDITIONAL_ICONS_5_ARROWS_GRAY"
      [] x = "FiveRatings" -> "LXW_CONDITIONAL_ICONS_5_RATINGS"
      [] x = "FiveQuarters" -> "LXW_CONDITIONAL_ICONS_5_QUARTERS"

\* ConditionalIconType::value
ConditionalIconType_value(x) ==
    as_u8(enum_value(lxw_conditional_icon_types, ConditionalIconType_constant(x)))

\* lxw_defined_colors_LXW_COLOR_BLACK
LXW_COLOR_BLACK == "LXW_COLOR_BLACK"

\* The native codes the model names.
LXW_CONDITIONAL_TYPE_CELL == enum_value(lxw_conditional_format_types, "LXW_CONDITIONAL_TYPE_CELL")
LXW_CONDITIONAL_TYPE_FORMULA ==
    enum_value(lxw_conditional_format_types, "LXW_CONDITIONAL_TYPE_FORMULA")
LXW_CONDITIONAL_CRITERIA_EQUAL_TO ==
    enum_value(lxw_conditional_criteria, "LXW_CONDITIONAL_CRITERIA_EQUAL_TO")
LXW_CONDITIONAL_CRITERIA_TOP_OR_BOTTOM_PERCENT ==
    enum_value(lxw_conditional_criteria, "LXW_CONDITIONAL_CRITERIA_TOP_OR_BOTTOM_PERCENT")

\* option_str_to_cstr_bytes: the bytes of CString::new(x).unwrap() with their NUL.
option_str_to_cstr_bytes(s) ==
    IF s = None THEN None ELSE Some(CString_new(s[1]).bytes)

NoRule == [exists |-> FALSE]

\* ConditionalFormat::new(format), with the fields of lxw_conditional_format the
\* model follows.
ConditionalFormat_new(format) ==
    [exists |-> TRUE,
     type_ |-> as_u8(LXW_CONDITIONAL_TYPE_CELL),
     criteria |-> as_u8(LXW_CONDITIONAL_CRITERIA_EQUAL_TO),
     value |-> 0,
     value_string |-> NullPtr,
     format |-> format,
     min_value |-> 0,
     min_value_string |-> NullPtr,
     mid_value_string |-> NullPtr,
     max_value_string |-> NullPtr,
     multi_range |-> NullPtr,
     min_rule_type |-> ConditionalRuleType_value("Number"),
     min_color |-> LXW_COLOR_BLACK,
     max_value |-> 0,
     max_rule_type |-> ConditionalRuleType_value("Number"),
     max_color |-> LXW_COLOR_BLACK,
     bar_color |-> LXW_COLOR_BLACK,
     bar_direction |-> ConditionalBarDirection_value("Context"),
     bar_axis_position |-> ConditionalBarAxisPosition_value("Automatic"),
     icon_style |-> ConditionalIconType_value("ThreeArrowsColored"),
     string_value |-> None]

\* A mutant of with_conditional_type: a kind whose required fields are not set
\* yet is not taken.
with_conditional_type_validating(rule, conditional_type) ==
    IF conditional_type = "Formula" /\ rule.value_string = NullPtr THEN rule
    ELSE [rule EXCEPT !.type_ = ConditionalType_value(conditional_type)]

\* self._internal_format.type_ = conditional_type.value() as u8
with_conditional_type(rule, conditional_type) ==
    [rule EXCEPT !.type_ = ConditionalType_value(conditional_type)]

\* A mutant of with_criteria: the value is reset with the criteria.
with_criteria_resetting_value(rule, criteria) ==
    [rule EXCEPT !.criteria = ConditionalCriteria_value(criteria), !.value = 0]

\* self._internal_format.criteria = criteria.value() as u8
with_criteria(rule, criteria) ==
    [rule EXCEPT !.criteria = ConditionalCriteria_value(criteria)]

\* self._internal_format.value = value
with_value(rule, value) == [rule EXCEPT !.value = value]

\* self.string_value = option_str_to_cstr_bytes(&value_string);
\* self._internal_format.value_string = pointer to the bytes of self.string_value, or null
with_value_string(rule, value_string) ==
    [rule EXCEPT !.string_value = option_str_to_cstr_bytes(value_string),
                 !.value_string = IF value_string = None THEN NullPtr
                                  ELSE PtrTo(option_str_to_cstr_bytes(value_string)[1])]

\* What a builder call records about itself: it returns Self, or panics.
Built(op, arg) == [op |-> op, arg |-> arg, calls |-> 0, rc |-> "none",
                   result |-> [tag |-> "Self", error |-> LXW_NO_ERROR]]

BuilderFrame == UNCHANGED <<build, cells, hlinks, merges, cond_formats, tables, nops, Layout>>

new(format) ==
    /\ Running
    /\ cf' = ConditionalFormat_new(format)
    /\ last' = Built("new", [format |-> format])
    /\ BuilderFrame

set_conditional_type(conditional_type) ==
    /\ Running /\ cf.exists
    /\ cf' = with_conditional_type(cf, conditional_type)
    /\ last' = Built("set_conditional_type", [conditional_type |-> conditional_type])
    /\ BuilderFrame

set_criteria(criteria) ==
    /\ Running /\ cf.exists
    /\ cf' = with_criteria(cf, criteria)
    /\ last' = Built("set_criteria", [criteria |-> criteria])
    /\ BuilderFrame

set_value(value) ==
    /\ Running /\ cf.exists
    /\ cf' = with_value(cf, value)
    /\ last' = Built("set_value", [value |-> value])
    /\ BuilderFrame

set_value_string(value_string) ==
    /\ Running /\ cf.exists
    /\ IF value_string # None /\ ~CString_new(value_string[1]).ok
       THEN /\ last' = [Built("set_value_string", [value_string |-> value_string]) EXCEPT !.result = Panic]
            /\ UNCHANGED cf
       ELSE /\ cf' = with_value_string(cf, value_string)
            /\ last' = Built("set_value_string", [value_string |-> value_string])
    /\ BuilderFrame

\* A pointer into a buffer that is dropped at the end of the statement that
\* took the pointer: the address is kept, the buffer is freed.
dangling(bytes) == PtrTo([freed |-> TRUE, bytes |-> bytes])

\* self._internal_format.<field> = option_str_to_cstr_bytes(&s)
\*     .as_mut().map(|x| x.as_mut_ptr()).unwrap_or(std::ptr::null_mut())
\* The Vec is a temporary of the statement: nothing owns it afterwards.
with_temporary_string(rule, field, s) ==
    [rule EXCEPT ![field] = IF s = None THEN NullPtr
                            ELSE dangling(option_str_to_cstr_bytes(s)[1])]

\* A string setter whose buffer is a temporary; CString::new(..).unwrap() panics
\* on an interior NUL.
set_temporary_string(op, field, s) ==
    /\ Running /\ cf.exists
    /\ IF s # None /\ ~CString_new(s[1]).ok
       THEN /\ last' = [Built(op, [value_string |-> s]) EXCEPT !.result = Panic]
            /\ UNCHANGED cf
       ELSE /\ cf' = with_temporary_string(cf, field, s)
            /\ last' = Built(op, [value_string |-> s])
    /\ BuilderFrame

set_min_value_string(min_value_string) ==
    set_temporary_string("set_min_value_string", "min_value_string", min_value_string)

set_mid_value_string(mid_value_string) ==
    set_temporary_string("set_mid_value_string", "mid_value_string", mid_value_string)

set_max_value_string(max_value_string) ==
    set_temporary_string("set_max_value_string", "max_value_string", max_value_string)

set_multi_range(multi_range) ==
    set_temporary_string("set_multi_range", "multi_range", multi_range)

\* The setters that assign one field of _internal_format.
with_min_value(rule, min_value) == [rule EXCEPT !.min_value = min_value]

\* A mutant of with_max_value: the value is stored as the minimum.
with_max_value_as_min(rule, max_value) == [rule EXCEPT !.min_value = max_value]

with_max_value(rule, max_value) == [rule EXCEPT !.max_value = max_value]

with_min_rule_type(rule, min_rule_type) ==
    [rule EXCEPT !.min_rule_type = ConditionalRuleType_value(min_rule_type)]

with_bar_direction(rule, bar_direction) ==
    [rule EXCEPT !.bar_direction = ConditionalBarDirection_value(bar_direction)]

with_bar_axis_position(rule, bar_axis_position) ==
    [rule EXCEPT !.bar_axis_position = ConditionalBarAxisPosition_value(bar_axis_position)]

with_icon_style(rule, icon_style) ==
    [rule EXCEPT !.icon_style = ConditionalIconType_value(icon_style)]

set_min_value(min_value) ==
    /\ Running /\ cf.exists
    /\ cf' = with_min_value(cf, min_value)
    /\ last' = Built("set_min_value", [min_value |-> min_value])
    /\ BuilderFrame

set_max_value(max_value) ==
    /\ Running /\ cf.exists
    /\ cf' = with_max_value(cf, max_value)
    /\ last' = Built("set_max_value", [max_value |-> max_value])
    /\ BuilderFrame

set_min_rule_type(min_rule_type) ==
    /\ Running /\ cf.exists
    /\ cf' = with_min_rule_type(cf, min_rule_type)
    /\ last' = Built("set_min_rule_type", [min_rule_type |-> min_rule_type])
    /\ BuilderFrame

set_bar_direction(bar_direction) ==
    /\ Running /\ cf.exists
    /\ cf' = with_bar_direction(cf, bar_direction)
    /\ last' = Built("set_bar_direction", [bar_direction |-> bar_direction])
    /\ BuilderFrame

set_bar_axis_position(bar_axis_position) ==
    /\ Running /\ cf.exists
    /\ cf' = with_bar_axis_position(cf, bar_axis_position)
    /\ last' = Built("set_bar_axis_position", [bar_axis_position |-> bar_axis_position])
    /\ BuilderFrame

set_icon_style(icon_style) ==
    /\ Running /\ cf.exists
    /\ cf' = with_icon_style(cf, icon_style)
    /\ last' = Built("set_icon_style", [icon_style |-> icon_style])
    /\ BuilderFrame

-----------------------------------------------------------------------------
\* The wrappers of worksheet.rs: conditional formats

\* What a read through the pointers of the rule finds: a freed buffer holds
\* its old bytes (intact) or something else, here the empty string.
through_pointers(rule, intact) ==
    [rule EXCEPT !.multi_range =
        IF @ = NullPtr \/ intact THEN @ ELSE PtrTo([freed |-> TRUE, bytes |-> <<0>>])]

\* native: the rule as the library reads it through the pointer it is given;
\* the multi_range of every rule is read, the min / mid / max value strings
\* (color scales and data bars with a formula bound) are not followed here.
read_rule(rule) ==
    [type_ |-> rule.type_, criteria |-> rule.criteria, value |-> rule.value,
     value_string |-> IF rule.value_string = NullPtr THEN None
                      ELSE Some(c_str(rule.value_string[1])),
     multi_range |-> IF rule.multi_range = NullPtr THEN None
                     ELSE Some(c_str(rule.multi_range[1].bytes)),
     format |-> rule.format,
     min_value |-> rule.min_value, min_rule_type |-> rule.min_rule_type,
     min_color |-> rule.min_color,
     max_value |-> rule.max_value, max_rule_type |-> rule.max_rule_type,
     max_color |-> rule.max_color,
     bar_color |-> rule.bar_color, bar_direction |-> rule.bar_direction,
     bar_axis_position |-> rule.bar_axis_position, icon_style |-> rule.icon_style]

\* native: "a Formula rule requires non-empty formula text; a TopOrBottomPercent
\* criteria requires a 0-100 bound".
rule_is_valid(r) ==
    /\ r.type_ = LXW_CONDITIONAL_TYPE_FORMULA =>
           (r.value_string # None /\ r.value_string[1] # <<>>)
    /\ r.criteria = LXW_CONDITIONAL_CRITERIA_TOP_OR_BOTTOM_PERCENT =>
           (0 <= r.value /\ r.value <= 100)

\* native: add_rule(range, rule) "appends to the sheet's rule list in call order".
add_rule(rules, range, r) == Append(rules, [range |-> range, rule |-> r])

worksheet_conditional_format_range(first_row, first_col, last_row, last_col, rule) ==
    IF check_dimensions(first_row, first_col) # LXW_NO_ERROR
       \/ check_dimensions(last_row, last_col) # LXW_NO_ERROR
    THEN [rc |-> OutOfRange, cond_formats |-> cond_formats]
    ELSE IF ~rule_is_valid(read_rule(rule))
    THEN [rc |-> InvalidRule, cond_formats |-> cond_formats]
    ELSE [rc |-> LXW_NO_ERROR,
          cond_formats |-> add_rule(cond_formats,
                                    <<first_row, first_col, last_row, last_col>>,
                                    read_rule(rule))]

worksheet_conditional_format_cell(row, col, rule) ==
    worksheet_conditional_format_range(row, col, row, col, rule)

RuleCalled(op, rect, native) ==
    /\ cond_formats' = native.cond_formats
    /\ last' = [op |-> op, rect |-> rect, rule |-> cf, calls |-> 1, rc |-> native.rc,
                result |-> to_result(native.rc)]
    /\ nops' = nops + 1
    /\ UNCHANGED <<build, cells, hlinks, merges, tables, cf, Layout>>

conditional_format_cell(row, col) ==
    /\ CanCall /\ cf.exists
    /\ \E intact \in BOOLEAN :
          RuleCalled("conditional_format_cell", <<row, col, row, col>>,
                     worksheet_conditional_format_cell(row, col,
                                                       through_pointers(cf, intact)))

\* A mutant of conditional_format_range: the first cell is passed as the last
\* cell too.
conditional_format_range_first_cell(first_row, first_col, last_row, last_col) ==
    /\ CanCall /\ cf.exists
    /\ RuleCalled("conditional_format_range", <<first_row, first_col, last_row, last_col>>,
                  worksheet_conditional_format_range(first_row, first_col, first_row,
                                                     first_col, cf))

conditional_format_range(first_row, first_col, last_row, last_col) ==
    /\ CanCall /\ cf.exists
    /\ \E intact \in BOOLEAN :
          RuleCalled("conditional_format_range",
                     <<first_row, first_col, last_row, last_col>>,
                     worksheet_conditional_format_range(first_row, first_col, last_row,
                                                        last_col,
                                                        through_pointers(cf, intact)))

-----------------------------------------------------------------------------
\* The wrappers of worksheet.rs: page setup

\* impl PaperType: fn value(self) -> u8
PaperType_value(paper) ==
    CASE paper.tag = "PrinterDefault" -> 0
      [] paper.tag = "Letter" -> 1
      [] paper.tag = "Tabloid" -> 3
      [] paper.tag = "Ledger" -> 4
      [] paper.tag = "Legal" -> 5
      [] paper.tag = "Statement" -> 6
      [] paper.tag = "Executive" -> 7
      [] paper.tag = "A3" -> 8
      [] paper.tag = "A4" -> 9
      [] paper.tag = "A5" -> 11
      [] paper.tag = "B4" -> 12
      [] paper.tag = "B5" -> 13
      [] paper.tag = "Folio" -> 14
      [] paper.tag = "Quarto" -> 15
      [] paper.tag = "Other" -> paper.x % 256

\* native: a new sheet's page setup.
DefaultPageSetup ==
    [zoom |-> 100, fit_width |-> 0, fit_height |-> 0, print_scale |-> 100,
     start_page |-> 0, paper |-> 0]

\* native: "page-setup setters are pure property mutations with no
\* cross-validation beyond range checks (zoom 10-400, fit-to-pages
\* width/height >= 0)".
worksheet_set_zoom(scale) ==
    IF scale < 10 \/ scale > 400 THEN page_setup ELSE [page_setup EXCEPT !.zoom = scale]

worksheet_fit_to_pages(width, height) ==
    IF width < 0 \/ height < 0 THEN page_setup
    ELSE [page_setup EXCEPT !.fit_width = width, !.fit_height = height]

worksheet_set_print_scale(scale) == [page_setup EXCEPT !.print_scale = scale]

worksheet_set_start_page(start_page) == [page_setup EXCEPT !.start_page = start_page]

worksheet_set_paper(paper_type) == [page_setup EXCEPT !.paper = paper_type]

\* What a wrapper without a return value records about itself.
Unit == [tag |-> "Unit", error |-> LXW_NO_ERROR]

Done(op, arg) == [op |-> op, arg |-> arg, calls |-> 1, rc |-> "none", result |-> Unit]

PageSetupFrame ==
    /\ nops' = nops + 1
    /\ UNCHANGED <<build, cells, hlinks, merges, cond_formats, tables, panes, Sizes, cf>>

\* A mutant of set_zoom: the scale is passed to worksheet_set_print_scale.
set_zoom_as_print_scale(scale) ==
    /\ CanCall
    /\ page_setup' = worksheet_set_print_scale(scale)
    /\ last' = Done("set_zoom", [scale |-> scale])
    /\ PageSetupFrame

set_zoom(scale) ==
    /\ CanCall
    /\ page_setup' = worksheet_set_zoom(scale)
    /\ last' = Done("set_zoom", [scale |-> scale])
    /\ PageSetupFrame

fit_to_pages(width, height) ==
    /\ CanCall
    /\ page_setup' = worksheet_fit_to_pages(width, height)
    /\ last' = Done("fit_to_pages", [width |-> width, height |-> height])
    /\ PageSetupFrame

set_start_page(start_page) ==
    /\ CanCall
    /\ page_setup' = worksheet_set_start_page(start_page)
    /\ last' = Done("set_start_page", [start_page |-> start_page])
    /\ PageSetupFrame

set_print_scale(scale) ==
    /\ CanCall
    /\ page_setup' = worksheet_set_print_scale(scale)
    /\ last' = Done("set_print_scale", [scale |-> scale])
    /\ PageSetupFrame

set_paper(paper) ==
    /\ CanCall
    /\ page_setup' = worksheet_set_paper(PaperType_value(paper))
    /\ last' = Done("set_paper", [paper |-> paper])
    /\ PageSetupFrame

-----------------------------------------------------------------------------
\* The wrappers of worksheet.rs: panes and selection

\* native: a new sheet has neither panes nor a selection.
NoPanes == [none |-> TRUE]

\* native: "freeze/split-pane and selection calls are mutually exclusive per
\* sheet - setting one clears the other's effect (last-set-wins)".
worksheet_freeze_panes(row, col) == [freeze |-> <<row, col>>]

worksheet_split_panes(vertical, horizontal) == [split |-> <<vertical, horizontal>>]

worksheet_set_selection(first_row, first_col, last_row, last_col) ==
    [selection |-> <<first_row, first_col, last_row, last_col>>]

PanesFrame ==
    /\ nops' = nops + 1
    /\ UNCHANGED <<build, cells, hlinks, merges, cond_formats, tables, page_setup, Sizes,
                   cf>>

freeze_panes(row, col) ==
    /\ CanCall
    /\ panes' = worksheet_freeze_panes(row, col)
    /\ last' = Done("freeze_panes", [row |-> row, col |-> col])
    /\ PanesFrame

\* A mutant of split_panes: the two positions are passed in the other order.
split_panes_swapped(vertical, horizontal) ==
    /\ CanCall
    /\ panes' = worksheet_split_panes(horizontal, vertical)
    /\ last' = Done("split_panes", [vertical |-> vertical, horizontal |-> horizontal])
    /\ PanesFrame

split_panes(vertical, horizontal) ==
    /\ CanCall
    /\ panes' = worksheet_split_panes(vertical, horizontal)
    /\ last' = Done("split_panes", [vertical |-> vertical, horizontal |-> horizontal])
    /\ PanesFrame

set_selection(first_row, first_col, last_row, last_col) ==
    /\ CanCall
    /\ panes' = worksheet_set_selection(first_row, first_col, last_row, last_col)
    /\ last' = Done("set_selection",
                    [rect |-> <<first_row, first_col, last_row, last_col>>])
    /\ PanesFrame

-----------------------------------------------------------------------------
\* The wrappers of worksheet.rs: row heights and column widths
\*
\* An f64 height or width is counted in hundredths: 8.43 is 843.

\* pub const LXW_DEF_ROW_HEIGHT: f64 = 8.43
LXW_DEF_ROW_HEIGHT == 843
\* pub const LXW_DEF_ROW_HEIGHT_PIXELS: u32 = 20
LXW_DEF_ROW_HEIGHT_PIXELS == 20
\* pub const LXW_DEF_COL_WIDTH: f64 = 15.0
LXW_DEF_COL_WIDTH == 1500
\* pub const LXW_DEF_COL_WIDTH_PIXELS: u32 = 64
LXW_DEF_COL_WIDTH_PIXELS == 64

\* native: the height of a row that was never set is 15 points (20 pixels),
\* the width of a column that was never set is 8.43 characters (64 pixels).
native_DEF_ROW_HEIGHT == 1500
native_DEF_COL_WIDTH == 843

\* native: a pixel is 0.75 point; the default pixel height is the default height.
pixels_to_height(pixels) ==
    IF pixels = LXW_DEF_ROW_HEIGHT_PIXELS THEN native_DEF_ROW_HEIGHT ELSE pixels * 75

\* native: a character is 7 pixels wide and a column has 5 pixels of padding
\* (up to 12 pixels: 12 pixels to the character); the default pixel width is
\* the default width.
pixels_to_width(pixels) ==
    IF pixels = LXW_DEF_COL_WIDTH_PIXELS THEN native_DEF_COL_WIDTH
    ELSE IF pixels <= 12 THEN (pixels * 100) \div 12
    ELSE ((pixels - 5) * 100) \div 7

\* native: the height and the format of a row are replaced together; a row
\* beyond the sheet extents is refused.
worksheet_set_row(row, height, format) ==
    IF check_dimensions(row, 0) # LXW_NO_ERROR
    THEN [rc |-> OutOfRange, row_options |-> row_options]
    ELSE [rc |-> LXW_NO_ERROR,
          row_options |-> [r \in DOMAIN row_options \cup {row} |->
                              IF r = row THEN [height |-> height, format |-> format]
                              ELSE row_options[r]]]

\* native: the same with the height given in pixels.
worksheet_set_row_pixels(row, pixels, format) ==
    worksheet_set_row(row, pixels_to_height(pixels), format)

\* native: the width and the format of the columns first_col .. last_col (in
\* either order) are replaced together; a column beyond the sheet extents is
\* refused.
worksheet_set_column(first_col, last_col, width, format) ==
    LET lo == IF first_col > last_col THEN last_col ELSE first_col
        hi == IF first_col > last_col THEN first_col ELSE last_col
    IN IF check_dimensions(0, hi) # LXW_NO_ERROR
       THEN [rc |-> OutOfRange, col_options |-> col_options]
       ELSE [rc |-> LXW_NO_ERROR,
             col_options |-> [c \in DOMAIN col_options \cup (lo..hi) |->
                                 IF c \in lo..hi THEN [width |-> width, format |-> format]
                                 ELSE col_options[c]]]

\* native: the same with the width given in pixels.
worksheet_set_column_pixels(first_col, last_col, pixels, format) ==
    worksheet_set_column(first_col, last_col, pixels_to_width(pixels), format)

\* What a row or column setter records about itself.
Sized(op, first, last_, size, format, rc) ==
    [op |-> op, range |-> <<first, last_>>, size |-> size, format |-> format,
     calls |-> 1, rc |-> rc, result |-> to_result(rc)]

SizesFrame ==
    /\ nops' = nops + 1
    /\ UNCHANGED <<build, cells, hlinks, merges, cond_formats, tables, page_setup, panes,
                   cf>>

set_row(row, height, format) ==
    /\ CanCall
    /\ LET native == worksheet_set_row(row, height, format_ptr(format))
       IN /\ row_options' = native.row_options
          /\ last' = Sized("set_row", row, row, [height |-> height], format, native.rc)
    /\ UNCHANGED col_options
    /\ SizesFrame

set_row_pixels(row, pixels, format) ==
    /\ CanCall
    /\ LET native == worksheet_set_row_pixels(row, pixels, format_ptr(format))
       IN /\ row_options' = native.row_options
          /\ last' = Sized("set_row_pixels", row, row, [pixels |-> pixels], format,
                           native.rc)
    /\ UNCHANGED col_options
    /\ SizesFrame

set_column(first_col, last_col, width, format) ==
    /\ CanCall
    /\ LET native == worksheet_set_column(first_col, last_col, width, format_ptr(format))
       IN /\ col_options' = native.col_options
          /\ last' = Sized("set_column", first_col, last_col, [width |-> width], format,
                           native.rc)
    /\ UNCHANGED row_options
    /\ SizesFrame

set_column_pixels(first_col, last_col, pixels, format) ==
    /\ CanCall
    /\ LET native == worksheet_set_column_pixels(first_col, last_col, pixels,
                                                 format_ptr(format))
       IN /\ col_options' = native.col_options
          /\ last' = Sized("set_column_pixels", first_col, last_col, [pixels |-> pixels],
                           format, native.rc)
    /\ UNCHANGED row_options
    /\ SizesFrame

-----------------------------------------------------------------------------
\* Inputs

Formats == {None, Some(1)}
Positions ==
    {<<0, 0>>, <<0, 1>>, <<1, 0>>, <<LXW_ROW_MAX - 1, LXW_COL_MAX - 1>>,
     <<LXW_ROW_MAX, 0>>, <<0, LXW_COL_MAX>>}
Numbers == {"1.5", "NaN", "+Inf", "-Inf"}
Texts == {<<97>>, <<98, 0, 99>>}
DateTimes == {[year |-> 2013, month |-> 2, day |-> 28, hour |-> 12, min |-> 0, second |-> "0.0"]}
RichTexts ==
    {<< <<(<<97>>), None>>, <<(<<98>>), Some(1)>> >>,
     << <<(<<97>>), None>>, <<(<<>>), Some(1)>> >>,
     << <<(<<97, 0>>), None>> >>}
Rects == {<<0, 0, 0, 1>>, <<0, 1, 1, 1>>, <<LXW_ROW_MAX - 1, 0, LXW_ROW_MAX, 0>>}

NoCall == [op |-> "none", calls |-> 0, rc |-> "none", result |-> Ok]
Empty == [p \in {} |-> NULL]

Init ==
    /\ build \in {"debug", "release"}
    /\ cells = Empty
    /\ hlinks = Empty
    /\ merges = {}
    /\ cond_formats = <<>>
    /\ tables = <<>>
    /\ page_setup = DefaultPageSetup
    /\ panes = NoPanes
    /\ row_options = Empty
    /\ col_options = Empty
    /\ cf = NoRule
    /\ last = NoCall
    /\ nops = 0

NextCells ==
    \/ \E p \in Positions, x \in Numbers : write_number(p[1], p[2], x, None)
    \/ \E p \in Positions, s \in Texts, f \in Formats : write_string(p[1], p[2], s, f)
    \/ \E p \in Positions, s \in Texts : write_formula(p[1], p[2], s, Some(1))
    \/ \E p \in Positions, d \in DateTimes : write_datetime(p[1], p[2], d, Some(1))
    \/ \E p \in Positions, s \in Texts : write_url(p[1], p[2], s, None)
    \/ \E p \in Positions, b \in BOOLEAN : write_boolean(p[1], p[2], b, None)
    \/ \E p \in Positions, f \in Formats : write_blank(p[1], p[2], f)
    \/ \E p \in Positions, t \in RichTexts : write_rich_string(p[1], p[2], t, None)
    \/ \E m \in Rects, f \in Formats : merge_range(m[1], m[2], m[3], m[4], <<97>>, f)

SpecCells == Init /\ [][NextCells]_vars

\* Table inputs
TableCols == {0, 1, 2, U16_MODULUS - 1}
TableRows == {0, LXW_ROW_MAX}
DefaultColumn == [header |-> None, formula |-> None, total_string |-> None]
ColumnLists ==
    {<<>>, <<DefaultColumn>>, <<DefaultColumn, [DefaultColumn EXCEPT !.header = Some(<<97>>)]>>,
     <<DefaultColumn, DefaultColumn, DefaultColumn>>}
TableOptionsInputs ==
    {None, Some(TableOptions_default),
     Some([TableOptions_default EXCEPT !.name = Some(<<98, 0, 99>>)]),
     Some([TableOptions_default EXCEPT !.name = Some(<<98>>), !.no_header_row = TRUE,
                                       !.banded_columns = TRUE, !.total_row = TRUE,
                                       !.style_type = "Dark", !.style_type_number = 3])}
    \cup {Some([TableOptions_default EXCEPT !.columns = Some(c)]) : c \in ColumnLists}

NextTable ==
    \E r \in TableRows, c1 \in TableCols, c2 \in TableCols, o \in TableOptionsInputs :
        add_table(0, c1, r, c2, o)

SpecTable == Init /\ [][NextTable]_vars

\* Rule inputs
RuleTypes == {"Cell", "Formula"}
RuleCriteria == {"EqualTo", "TopOrBottomPercent"}
RuleValues == {0, 150}
RuleStrings == {None, Some(<<>>), Some(<<61, 65, 49>>), Some(<<61, 0>>)}
RuleCells == {<<0, 0>>, <<LXW_ROW_MAX, 0>>}
RuleRanges == {<<0, 0, 9, 0>>, <<0, 0, 9, LXW_COL_MAX>>}

NextRules ==
    \/ new(1)
    \/ \E t \in RuleTypes : set_conditional_type(t)
    \/ \E c \in RuleCriteria : set_criteria(c)
    \/ \E v \in RuleValues : set_value(v)
    \/ \E s \in RuleStrings : set_value_string(s)
    \/ \E p \in RuleCells : conditional_format_cell(p[1], p[2])
    \/ \E m \in RuleRanges : conditional_format_range(m[1], m[2], m[3], m[4])

SpecRules == Init /\ [][NextRules]_vars

\* The builder alone, over every kind and every criteria
NextKinds ==
    \/ new(1)
    \/ \E i \in 1..Len(ConditionalTypes) : set_conditional_type(ConditionalTypes[i])
    \/ \E i \in 1..Len(ConditionalCriterias) : set_criteria(ConditionalCriterias[i])

SpecKinds == Init /\ [][NextKinds]_vars

\* Page setup, panes and selection
Scales == {9, 10, 100, 400, 401}
PageCounts == {0, 1}
StartPages == {0, 2}
Papers == {[tag |-> "PrinterDefault", x |-> 0], [tag |-> "A4", x |-> 0],
           [tag |-> "Other", x |-> 200]}
FreezeCells == {<<1, 0>>, <<2, 1>>}
SplitPositions == {<<"15.0", "0.0">>, <<"0.0", "8.43">>}
Selections == {<<0, 0, 0, 0>>, <<1, 1, 2, 2>>}

NextLayout ==
    \/ \E scale \in Scales : set_zoom(scale)
    \/ \E width \in PageCounts, height \in PageCounts : fit_to_pages(width, height)
    \/ \E start_page \in StartPages : set_start_page(start_page)
    \/ \E scale \in Scales : set_print_scale(scale)
    \/ \E paper \in Papers : set_paper(paper)
    \/ \E p \in FreezeCells : freeze_panes(p[1], p[2])
    \/ \E p \in SplitPositions : split_panes(p[1], p[2])
    \/ \E m \in Selections : set_selection(m[1], m[2], m[3], m[4])

SpecLayout == Init /\ [][NextLayout]_vars

\* A data bar: the builder's minimum and maximum and the range A1:A10
BarTypes == {"Cell", "DataBar"}
BarValues == {0, 100}
A1_A10 == <<0, 0, 9, 0>>

NextBars ==
    \/ new(1)
    \/ \E t \in BarTypes : set_conditional_type(t)
    \/ \E v \in BarValues : set_min_value(v)
    \/ \E v \in BarValues : set_max_value(v)
    \/ conditional_format_range(A1_A10[1], A1_A10[2], A1_A10[3], A1_A10[4])

SpecBars == Init /\ [][NextBars]_vars

\* Every variant of the six enums, each given to its setter on a new rule
NextEnums ==
    \/ new(1)
    \/ \E i \in 1..Len(ConditionalTypes) :
           last.op = "new" /\ set_conditional_type(ConditionalTypes[i])
    \/ \E i \in 1..Len(ConditionalCriterias) :
           last.op = "new" /\ set_criteria(ConditionalCriterias[i])
    \/ \E i \in 1..Len(ConditionalRuleTypes) :
           last.op = "new" /\ set_min_rule_type(ConditionalRuleTypes[i])
    \/ \E i \in 1..Len(ConditionalBarDirections) :
           last.op = "new" /\ set_bar_direction(ConditionalBarDirections[i])
    \/ \E i \in 1..Len(ConditionalBarAxisPositions) :
           last.op = "new" /\ set_bar_axis_position(ConditionalBarAxisPositions[i])
    \/ \E i \in 1..Len(ConditionalIconTypes) :
           last.op = "new" /\ set_icon_style(ConditionalIconTypes[i])

SpecEnums == Init /\ [][NextEnums]_vars

\* The string setters of the builder, and the rule handed to the sheet
StringSetterInputs == {None, Some(<<65>>), Some(<<65, 0, 66>>)}

NextStrings ==
    \/ new(1)
    \/ \E s \in StringSetterInputs : set_value_string(s)
    \/ \E s \in StringSetterInputs : set_min_value_string(s)
    \/ \E s \in StringSetterInputs : set_mid_value_string(s)
    \/ \E s \in StringSetterInputs : set_max_value_string(s)
    \/ \E s \in StringSetterInputs : set_multi_range(s)
    \/ conditional_format_cell(0, 0)

SpecStrings == Init /\ [][NextStrings]_vars

\* The setters of the builder against each other
SetterTypes == {"Cell", "DataBar"}
SetterCriteria == {"EqualTo", "TopOrBottomPercent"}
SetterValues == {0, 150}
SetterStrings == {None, Some(<<65>>)}
SetterRuleTypes == {"Number", "Percent"}
SetterBarDirections == {"Context", "RightToLeft"}

NextSetters ==
    \/ new(1)
    \/ \E t \in SetterTypes : set_conditional_type(t)
    \/ \E c \in SetterCriteria : set_criteria(c)
    \/ \E v \in SetterValues : set_value(v)
    \/ \E s \in SetterStrings : set_value_string(s)
    \/ \E v \in SetterValues : set_min_value(v)
    \/ \E v \in SetterValues : set_max_value(v)
    \/ \E t \in SetterRuleTypes : set_min_rule_type(t)
    \/ \E d \in SetterBarDirections : set_bar_direction(d)
    \/ \E s \in SetterStrings : set_multi_range(s)

SpecSetters == Init /\ [][NextSetters]_vars

\* Row and column sizes
SizedRows == {0, 1, LXW_ROW_MAX}
SizedCols == {0, 1, LXW_COL_MAX}
Heights == {LXW_DEF_ROW_HEIGHT, 1500, 3000}
Widths == {LXW_DEF_COL_WIDTH, 843}
RowPixels == {LXW_DEF_ROW_HEIGHT_PIXELS, 40}
ColPixels == {12, LXW_DEF_COL_WIDTH_PIXELS, 110}

NextSizes ==
    \/ \E r \in SizedRows, h \in Heights, f \in Formats : set_row(r, h, f)
    \/ \E r \in SizedRows, p \in RowPixels, f \in Formats : set_row_pixels(r, p, f)
    \/ \E c1 \in SizedCols, c2 \in SizedCols, w \in Widths, f \in Formats :
           set_column(c1, c2, w, f)
    \/ \E c1 \in SizedCols, c2 \in SizedCols, p \in ColPixels, f \in Formats :
           set_column_pixels(c1, c2, p, f)

SpecSizes == Init /\ [][NextSizes]_vars

\* Every operation of the sheet together, on a corner of the grid
Corner == {<<0, 0>>, <<0, 1>>, <<LXW_ROW_MAX, 0>>}

Next ==
    \/ \E p \in Corner, x \in {"1.5", "NaN"} : write_number(p[1], p[2], x, None)
    \/ \E p \in Corner, s \in Texts : write_string(p[1], p[2], s, Some(1))
    \/ \E p \in Corner : write_formula(p[1], p[2], <<61, 65, 49>>, None)
    \/ \E p \in Corner, d \in DateTimes : write_datetime(p[1], p[2], d, None)
    \/ \E p \in Corner : write_url(p[1], p[2], <<97>>, None)
    \/ \E p \in Corner : write_boolean(p[1], p[2], TRUE, None)
    \/ \E p \in Corner, f \in Formats : write_blank(p[1], p[2], f)
    \/ \E p \in Corner, t \in RichTexts : write_rich_string(p[1], p[2], t, None)
    \/ \E m \in Rects : merge_range(m[1], m[2], m[3], m[4], <<97>>, Some(1))
    \/ \E r \in TableRows, c2 \in TableCols, n \in {<<>>, <<DefaultColumn>>} :
           add_table(0, 0, r, c2, Some([TableOptions_default EXCEPT !.columns = Some(n)]))
    \/ new(1)
    \/ \E t \in RuleTypes : set_conditional_type(t)
    \/ \E s \in {None, Some(<<61, 65, 49>>)} : set_value_string(s)
    \/ \E p \in RuleCells : conditional_format_cell(p[1], p[2])
    \/ \E m \in RuleRanges : conditional_format_range(m[1], m[2], m[3], m[4])

Spec == Init /\ [][Next]_vars

-----------------------------------------------------------------------------
\* Properties

CellWriteOps ==
    {"write_number", "write_string", "write_formula", "write_boolean", "write_blank",
     "write_url", "write_datetime", "write_rich_string"}
RuleOps == {"conditional_format_cell", "conditional_format_range"}
ResultOps == CellWriteOps \cup RuleOps \cup {"merge_range", "add_table"}

\* The last call was an add_table with column metadata.
TableWithColumns ==
    /\ last.op = "add_table"
    /\ last.options # None
    /\ last.options[1].columns # None

\* C1: add_table with a columns list whose length differs from the range width
\* last_col - first_col + 1 returns Err(NUMBER_OF_COLUMNS_IS_NOT_MATCHED) and
\* makes no native call.
C1_ColumnMismatchIsRejected ==
    (TableWithColumns
     /\ Len(last.options[1].columns[1]) # last.rect[4] - last.rect[2] + 1)
    => (last.result = Err(NUMBER_OF_COLUMNS_IS_NOT_MATCHED) /\ last.calls = 0)

\* The last call returned a Result after add_table's own column check, if any.
ReturnedFromNative ==
    /\ last.op \in ResultOps
    /\ last.result.tag \in {"Ok", "Err"}
    /\ ~(last.op = "add_table" /\ last.result = Err(NUMBER_OF_COLUMNS_IS_NOT_MATCHED))

\* C2: a Result-returning operation that returns (add_table: once its column
\* check passed) made exactly one native call, and its result is Ok exactly when
\* the native return code is LXW_NO_ERROR, otherwise Err carrying that code.
C2_ResultFollowsReturnCode ==
    ReturnedFromNative =>
        /\ last.calls = 1
        /\ last.result = Ok <=> last.rc = LXW_NO_ERROR
        /\ last.rc # LXW_NO_ERROR => last.result = Err(last.rc)

C2_Witness ==
    /\ last.op = "conditional_format_range"
    /\ last.calls = 1
    /\ last.rc = InvalidRule
    /\ last.result = Err(InvalidRule)

\* C3: an operation that returns Err leaves the worksheet exactly as it was
\* before the call.
C3_ErrLeavesSheetUnchanged == [][last'.result.tag = "Err" => Sheet' = Sheet]_vars

C3_Witness ==
    /\ last.op = "write_rich_string"
    /\ last.result = Err(ParameterValidation)
    /\ DOMAIN cells # {}

\* The address of a cell write lies beyond the last row or the last column.
BeyondExtents(l) == l.row > LXW_ROW_MAX - 1 \/ l.col > LXW_COL_MAX - 1

\* A write_blank without a format: the library ignores it.
IgnoredBlank(l) == l.op = "write_blank" /\ l.format = None

\* C4 as stated: every cell write that reaches the library with a row or a
\* column beyond the extents fails with OutOfRange, and none within them does.
C4_BeyondExtentsAlwaysFails ==
    (last.op \in CellWriteOps /\ last.calls = 1) =>
        IF BeyondExtents(last) THEN last.result = Err(OutOfRange)
        ELSE last.result.error # OutOfRange

\* C4, amended: a cell write beyond the extents stores no cell; it returns
\* Err(OutOfRange), except that a write_blank without a format is ignored and
\* returns Ok and that a text with an interior NUL panics before the native
\* call; no write within the extents fails with OutOfRange.
C4_BeyondExtentsStoresNothing ==
    [][last'.op \in CellWriteOps =>
          IF BeyondExtents(last')
          THEN /\ cells' = cells
               /\ hlinks' = hlinks
               /\ last'.result = CASE IgnoredBlank(last') -> Ok
                                    [] last'.calls = 0 -> Panic
                                    [] OTHER -> Err(OutOfRange)
          ELSE last'.result.error # OutOfRange]_vars

C4_Witness ==
    /\ last.op = "write_blank"
    /\ last.format = None
    /\ last.row = LXW_ROW_MAX
    /\ last.result = Ok
    /\ DOMAIN cells = {<<LXW_ROW_MAX - 1, LXW_COL_MAX - 1>>}

\* The address of a cell write is within the extents and not covered by a merge.
Writable(l) ==
    /\ ~BeyondExtents(l)
    /\ ~\E m \in merges : InRect(l.row, l.col, m) /\ <<l.row, l.col>> # <<m[1], m[2]>>

FormatOf(l) == IF l.format = None THEN NULL ELSE l.format[1]

CellOf(l) ==
    CASE l.op = "write_number" -> [kind |-> "number", value |-> [number |-> l.value.number]]
      [] l.op = "write_string" -> [kind |-> "string", value |-> [string |-> l.value.text]]
      [] l.op = "write_url" -> [kind |-> "string", value |-> [string |-> l.value.url]]
      [] l.op = "write_formula" ->
             [kind |-> "formula", value |-> [formula |-> l.value.formula]]
      [] l.op = "write_boolean" ->
             [kind |-> "boolean", value |-> [boolean |-> IF l.value.flag THEN 1 ELSE 0]]
      [] l.op = "write_blank" -> [kind |-> "blank", value |-> [blank |-> TRUE]]
      [] l.op = "write_datetime" ->
             [kind |-> "datetime",
              value |-> [datetime |->
                            [year |-> l.value.datetime.year,
                             month |-> l.value.datetime.month,
                             day |-> l.value.datetime.day,
                             hour |-> l.value.datetime.hour,
                             min |-> l.value.datetime.min,
                             sec |-> l.value.datetime.second]]]
      [] l.op = "write_rich_string" ->
             [kind |-> "rich_string",
              value |-> [runs |->
                            [i \in 1..Len(l.value.rich) |->
                                [format |-> IF l.value.rich[i][2] = None THEN NULL
                                            ELSE l.value.rich[i][2][1],
                                 string |-> l.value.rich[i][1]]]]]

\* The grid g holds at the address of the write l what l wrote, with its format.
Holds(g, l) ==
    /\ <<l.row, l.col>> \in DOMAIN g
    /\ g[<<l.row, l.col>>].kind = CellOf(l).kind
    /\ g[<<l.row, l.col>>].value = CellOf(l).value
    /\ g[<<l.row, l.col>>].format = FormatOf(l)

\* Every cell but the one at (row, col) is as it was.
OthersKept(row, col) ==
    /\ DOMAIN cells' \ {<<row, col>>} = DOMAIN cells \ {<<row, col>>}
    /\ \A p \in DOMAIN cells \ {<<row, col>>} : cells'[p] = cells[p]

C7_LaterWriteKeepsLink ==
    [][last'.op \in CellWriteOps =>
          /\ (last'.op = "write_url" /\ last'.result = Ok) =>
                 /\ Holds(cells', last')
                 /\ <<last'.row, last'.col>> \in DOMAIN hlinks'
                 /\ hlinks'[<<last'.row, last'.col>>] = last'.value.url
          /\ \A p \in DOMAIN hlinks :
                 /\ p \in DOMAIN hlinks'
                 /\ (last'.op = "write_url" /\ last'.result = Ok
                     /\ p = <<last'.row, last'.col>>) \/ hlinks'[p] = hlinks[p]
                 /\ (last'.op # "write_url" /\ last'.result = Ok /\ ~IgnoredBlank(last')
                     /\ p = <<last'.row, last'.col>>) => Holds(cells', last')]_vars

C7_Witness ==
    /\ last.op = "write_number"
    /\ last.result = Ok
    /\ <<last.row, last.col>> \in DOMAIN hlinks
    /\ hlinks[<<last.row, last.col>>] = <<97>>
    /\ cells[<<last.row, last.col>>].kind = "number"
    /\ cells[<<last.row, last.col>>].value.number = "1.5"

\* The cell at (row, col) lies in the merged rectangle m and is not its top-left cell.
CoveredBy(row, col, m) == InRect(row, col, m) /\ <<row, col>> # <<m[1], m[2]>>

\* Two rectangles share a cell.
ShareCell(a, b) ==
    \E r \in {a[1], a[3], b[1], b[3]}, c \in {a[2], a[4], b[2], b[4]} :
        InRect(r, c, a) /\ InRect(r, c, b)

MergeStep ==
    /\ (last'.op \in CellWriteOps /\ last'.calls = 1
        /\ \E m \in merges : CoveredBy(last'.row, last'.col, m)) =>
           /\ last'.result = IF IgnoredBlank(last') THEN Ok ELSE Err(OverlappingMerge)
           /\ cells' = cells
           /\ merges' = merges
    /\ (last'.op = "merge_range" /\ last'.calls = 1
        /\ \E m \in merges : ShareCell(last'.rect, m)) =>
           /\ last'.result = Err(OverlappingMerge)
           /\ cells' = cells
           /\ merges' = merges
    /\ (last'.op = "merge_range" /\ last'.result = Ok) =>
           /\ merges' = merges \cup {last'.rect}
           /\ <<last'.rect[1], last'.rect[2]>> \in DOMAIN cells'
           /\ cells'[<<last'.rect[1], last'.rect[2]>>].kind = "string"
           /\ cells'[<<last'.rect[1], last'.rect[2]>>].value.string = last'.value.text
           /\ cells'[<<last'.rect[1], last'.rect[2]>>].format = FormatOf(last')

EndsWith(rs, rect, r) ==
    /\ rs[Len(rs)].range = rect
    /\ rs[Len(rs)].rule.type_ = r.type_
    /\ rs[Len(rs)].rule.criteria = r.criteria
    /\ rs[Len(rs)].rule.value = r.value
    /\ rs[Len(rs)].rule.format = r.format

\* C9: every successful conditional_format_cell / conditional_format_range
\* adds exactly one rule, the one it was given on the range it was given, at the
\* end of the sheet's rule list and leaves the earlier rules as and where they
\* were; no other step changes the list.
C9_RulesAppendInCallOrder ==
    [][IF last'.op \in RuleOps /\ last'.result = Ok
       THEN /\ Len(cond_formats') = Len(cond_formats) + 1
            /\ SubSeq(cond_formats', 1, Len(cond_formats)) = cond_formats
            /\ EndsWith(cond_formats', last'.rect, last'.rule)
       ELSE cond_formats' = cond_formats]_vars

C9_Witness ==
    /\ Len(cond_formats) = 2
    /\ last.op = "conditional_format_range"
    /\ last.result = Ok
    /\ cond_formats[1].range = <<0, 0, 0, 0>>
    /\ cond_formats[1].rule.type_ = LXW_CONDITIONAL_TYPE_CELL
    /\ cond_formats[2].range = <<0, 0, 9, 0>>
    /\ cond_formats[2].rule.type_ = LXW_CONDITIONAL_TYPE_FORMULA

\* A rule has the fields its kind requires: a Formula rule a formula text that
\* is not empty, a TopOrBottomPercent criteria a bound in 0..100.
HasRequiredFields(r) ==
    /\ r.type_ = LXW_CONDITIONAL_TYPE_FORMULA =>
           (r.string_value # None /\ r.string_value[1] # <<0>>)
    /\ r.criteria = LXW_CONDITIONAL_CRITERIA_TOP_OR_BOTTOM_PERCENT =>
           (0 <= r.value /\ r.value <= 100)

CriteriaCodes(from, to) == {ConditionalCriteria_value(ConditionalCriterias[i]) : i \in from..to}

\* The criteria a kind takes: comparisons (EqualTo .. NotBetween) with Cell,
\* Text* with Text, TimePeriod* with TimePeriod, Average* with Average,
\* TopOrBottomPercent with Top and Bottom; the other kinds read no criteria.
AllowedCriteria(type_) ==
    CASE type_ = ConditionalType_value("Cell") -> CriteriaCodes(1, 8)
      [] type_ = ConditionalType_value("Text") -> CriteriaCodes(9, 12)
      [] type_ = ConditionalType_value("TimePeriod") -> CriteriaCodes(13, 21)
      [] type_ = ConditionalType_value("Average") -> CriteriaCodes(22, 31)
      [] type_ \in {ConditionalType_value("Top"), ConditionalType_value("Bottom")} ->
             CriteriaCodes(32, 32)
      [] OTHER -> CriteriaCodes(1, 32)

\* C11: in every ConditionalFormat built by new and the set_* calls the criteria
\* is one of those its kind takes.
C11_CriteriaMatchesKind == cf.exists => cf.criteria \in AllowedCriteria(cf.type_)

PageSetupOps == {"set_zoom", "fit_to_pages", "set_print_scale", "set_start_page", "set_paper"}

\* The fields of the page setup a setter is to set.
OwnFields(op) ==
    CASE op = "set_zoom" -> {"zoom"}
      [] op = "fit_to_pages" -> {"fit_width", "fit_height"}
      [] op = "set_print_scale" -> {"print_scale"}
      [] op = "set_start_page" -> {"start_page"}
      [] op = "set_paper" -> {"paper"}

\* What a page-setup setter does to the sheet.
PageSetupStep ==
    /\ last'.op = "set_zoom" =>
           page_setup'.zoom = IF 10 <= last'.arg.scale /\ last'.arg.scale <= 400
                              THEN last'.arg.scale ELSE page_setup.zoom
    /\ last'.op \in PageSetupOps =>
           /\ \A f \in DOMAIN page_setup \ OwnFields(last'.op) :
                  page_setup'[f] = page_setup[f]
           /\ UNCHANGED <<cells, hlinks, merges, cond_formats, tables, panes>>

\* C12: set_zoom with a scale in 10..400 sets exactly that zoom and with any
\* other scale leaves the zoom as it was; a page-setup setter (set_zoom,
\* fit_to_pages, set_print_scale, set_start_page, set_paper) changes no
\* property of the sheet but its own.
C12_PageSetupSettersAreLocal == [][PageSetupStep]_vars

C12_Witness ==
    /\ last.op = "set_zoom"
    /\ last.arg.scale = 401
    /\ page_setup.zoom = 400

PaneOps == {"freeze_panes", "split_panes", "set_selection"}

\* C13: after any sequence of freeze_panes, split_panes and set_selection calls
\* the sheet holds the state of the last of them only, and never two of a
\* freeze, a split and a selection; no other call changes it.
C13_LastPaneCallWins ==
    /\ [](/\ Cardinality(DOMAIN panes) = 1
          /\ last.op = "freeze_panes" => panes = [freeze |-> <<last.arg.row, last.arg.col>>]
          /\ last.op = "split_panes" =>
                 panes = [split |-> <<last.arg.vertical, last.arg.horizontal>>]
          /\ last.op = "set_selection" => panes = [selection |-> last.arg.rect])
    /\ [][last'.op \notin PaneOps => panes' = panes]_vars

C13_Witness ==
    /\ last.op = "set_selection"
    /\ nops = 2
    /\ panes = [selection |-> <<1, 1, 2, 2>>]

\* The last rule of the list rs is a data bar with the minimum, the maximum and
\* the colors of the rule r.
EndsWithDataBar(rs, r) ==
    /\ rs[Len(rs)].rule.type_ = ConditionalType_value("DataBar")
    /\ rs[Len(rs)].rule.min_value = r.min_value
    /\ rs[Len(rs)].rule.max_value = r.max_value
    /\ rs[Len(rs)].rule.min_rule_type = r.min_rule_type
    /\ rs[Len(rs)].rule.max_rule_type = r.max_rule_type
    /\ rs[Len(rs)].rule.min_color = r.min_color
    /\ rs[Len(rs)].rule.max_color = r.max_color
    /\ rs[Len(rs)].rule.bar_color = r.bar_color

\* C14: set_min_value and set_max_value leave in the rule the value they are
\* given and the colors of new; a DataBar rule applied to A1:A10 with
\* conditional_format_range succeeds and is the last rule of the sheet's list,
\* on that range, with the kind, the minimum, the maximum and the colors it
\* was built with.
C14_DataBarReachesRuleList ==
    /\ last.op = "set_min_value" => cf.min_value = last.arg.min_value
    /\ last.op = "set_max_value" => cf.max_value = last.arg.max_value
    /\ cf.exists => /\ cf.min_color = LXW_COLOR_BLACK
                    /\ cf.max_color = LXW_COLOR_BLACK
                    /\ cf.bar_color = LXW_COLOR_BLACK
    /\ (last.op = "conditional_format_range"
        /\ last.rule.type_ = ConditionalType_value("DataBar")) =>
           /\ last.result = Ok
           /\ cond_formats[Len(cond_formats)].range = A1_A10
           /\ EndsWithDataBar(cond_formats, last.rule)

C14_Witness ==
    /\ last.op = "conditional_format_range"
    /\ last.result = Ok
    /\ cond_formats[Len(cond_formats)].range = A1_A10
    /\ cond_formats[Len(cond_formats)].rule.type_ = ConditionalType_value("DataBar")
    /\ cond_formats[Len(cond_formats)].rule.min_value = 0
    /\ cond_formats[Len(cond_formats)].rule.max_value = 100
    /\ cond_formats[Len(cond_formats)].rule.min_color = LXW_COLOR_BLACK
    /\ cond_formats[Len(cond_formats)].rule.max_color = LXW_COLOR_BLACK
    /\ cf.max_value = 100

\* The elements of a sequence.
Range(seq) == {seq[i] : i \in 1..Len(seq)}

\* C15: there are exactly 17 kinds; the code a setter leaves in the rule, after
\* its narrowing to 8 bits, is the code of the variant it was given and of no
\* other variant of its enum, for ConditionalType, ConditionalCriteria,
\* ConditionalRuleType, ConditionalBarDirection, ConditionalBarAxisPosition
\* and ConditionalIconType.
C15_EnumCodesAreDistinct ==
    /\ Len(ConditionalTypes) = 17
    /\ Cardinality(Range(ConditionalTypes)) = 17
    /\ Cardinality({ConditionalType_value(t) : t \in Range(ConditionalTypes)}) = 17
    /\ last.op = "set_conditional_type" =>
           \A t \in Range(ConditionalTypes) :
               ConditionalType_value(t) = cf.type_ <=> t = last.arg.conditional_type
    /\ last.op = "set_criteria" =>
           \A c \in Range(ConditionalCriterias) :
               ConditionalCriteria_value(c) = cf.criteria <=> c = last.arg.criteria
    /\ last.op = "set_min_rule_type" =>
           \A x \in Range(ConditionalRuleTypes) :
               ConditionalRuleType_value(x) = cf.min_rule_type <=> x = last.arg.min_rule_type
    /\ last.op = "set_bar_direction" =>
           \A x \in Range(ConditionalBarDirections) :
               ConditionalBarDirection_value(x) = cf.bar_direction
                   <=> x = last.arg.bar_direction
    /\ last.op = "set_bar_axis_position" =>
           \A x \in Range(ConditionalBarAxisPositions) :
               ConditionalBarAxisPosition_value(x) = cf.bar_axis_position
                   <=> x = last.arg.bar_axis_position
    /\ last.op = "set_icon_style" =>
           \A x \in Range(ConditionalIconTypes) :
               ConditionalIconType_value(x) = cf.icon_style <=> x = last.arg.icon_style

C15_Witness ==
    /\ last.op = "set_conditional_type"
    /\ last.arg.conditional_type = "IconSets"
    /\ cf.type_ = Len(ConditionalTypes)

\* The addresses of the records the serializer emits for a grid.
Emitted(grid) == {<<r.row, r.col>> : r \in Range(serialize_sheet(grid))}

\* What a write_blank does to the grid and to what the serializer emits.
BlankStep ==
    last'.op = "write_blank" =>
        IF last'.format = None
        THEN /\ last'.result = Ok
             /\ cells' = cells
             /\ Emitted(cells') = Emitted(cells)
        ELSE last'.result = Ok =>
                 /\ Holds(cells', last')
                 /\ \E r \in Range(serialize_sheet(cells')) :
                        /\ <<r.row, r.col>> = <<last'.row, last'.col>>
                        /\ r.cell.kind = "blank"
                        /\ r.cell.format = last'.format[1]

\* C16: a write_blank with a format that succeeds stores a blank cell with that
\* format, and the serializer emits a record for it; a write_blank without a
\* format returns Ok, is ignored and leaves the cell as it was, an empty cell
\* empty; the serializer emits a record for every populated cell and none for
\* an empty one.
C16_BlankIsStoredEmptyIsSkipped ==
    /\ [][BlankStep]_vars
    /\ [](Emitted(cells) = DOMAIN cells)

C16_Witness ==
    /\ last.op = "write_blank"
    /\ last.format = None
    /\ last.result = Ok
    /\ <<last.row, last.col>> = <<0, 0>>
    /\ DOMAIN cells = {<<0, 1>>}
    /\ cells[<<0, 1>>].kind = "blank"
    /\ Emitted(cells) = {<<0, 1>>}

\* The address a comes before the address b in row-major order.
Before(a, b) == a[1] < b[1] \/ (a[1] = b[1] /\ a[2] < b[2])

\* The records of out are in strictly increasing (row, column) order.
StrictlyIncreasing(out) ==
    \A i \in 1..(Len(out) - 1) :
        Before(<<out[i].row, out[i].col>>, <<out[i + 1].row, out[i + 1].col>>)

\* C17: whatever the order of the writes, the serializer emits the populated
\* cells in strictly increasing (row, column) order, one record for each, with
\* the cell the grid holds, and no record for a cell that was never written;
\* a cell write that stores a cell has its record emitted at its address.
C17_CellsAreEmittedInRowMajorOrder ==
    /\ [](/\ StrictlyIncreasing(serialize_sheet(cells))
          /\ Len(serialize_sheet(cells)) = Cardinality(DOMAIN cells)
          /\ \A r \in Range(serialize_sheet(cells)) :
                 <<r.row, r.col>> \in DOMAIN cells /\ r.cell = cells[<<r.row, r.col>>])
    /\ [][(last'.op \in CellWriteOps /\ last'.result = Ok /\ ~IgnoredBlank(last')) =>
             /\ <<last'.row, last'.col>> \in Emitted(cells')
             /\ Emitted(cells') = Emitted(cells) \cup {<<last'.row, last'.col>>}]_vars

C17_Witness ==
    /\ last.op = "write_number"
    /\ <<last.row, last.col>> = <<0, 1>>
    /\ DOMAIN cells = {<<0, 1>>, <<1, 0>>}
    /\ Len(serialize_sheet(cells)) = 2
    /\ serialize_sheet(cells)[1].row = 0
    /\ serialize_sheet(cells)[1].col = 1
    /\ serialize_sheet(cells)[2].row = 1
    /\ serialize_sheet(cells)[2].col = 0

\* The array write_rich_string hands to the native call for the fragments text:
\* one tuple per fragment, in order, then one null pointer.
IsTupleArrayOf(array, text) ==
    /\ Len(array) = Len(text) + 1
    /\ array[Len(array)] = NullPtr
    /\ \A i \in 1..Len(text) :
           /\ array[i] # NullPtr
           /\ c_str(array[i][1].string) = text[i][1]
           /\ array[i][1].format = (IF text[i][2] = None THEN NULL ELSE text[i][2][1])

\* C18: a write_rich_string that reaches the native call hands it one
\* (string, format) tuple per input fragment, in input order, with the text and
\* the format of that fragment (null for None), then exactly one null entry,
\* len(text) + 1 entries in all; the runs of the cell it stores are the
\* fragments in that order.
C18_OneTuplePerFragment ==
    (last.op = "write_rich_string" /\ last.calls = 1) =>
        /\ IsTupleArrayOf(rich_text_ptr_of(last.value.rich), last.value.rich)
        /\ last.result = Ok =>
               /\ Holds(cells, last)
               /\ Len(cells[<<last.row, last.col>>].value.runs) = Len(last.value.rich)

C18_Witness ==
    /\ last.op = "write_rich_string"
    /\ last.result = Ok
    /\ Len(last.value.rich) = 2
    /\ Len(rich_text_ptr_of(last.value.rich)) = 3
    /\ cells[<<last.row, last.col>>].value.runs[1] = [format |-> NULL, string |-> <<97>>]
    /\ cells[<<last.row, last.col>>].value.runs[2] = [format |-> 1, string |-> <<98>>]

\* A rich string has an empty fragment; a format with no text after it is a
\* fragment with an empty string.
HasEmptyFragment(text) == \E i \in 1..Len(text) : text[i][1] = <<>>

\* C19: a write_rich_string with an empty string fragment is ignored: it
\* leaves the target cell, and every other cell and link, as it was.
C19_EmptyFragmentIsIgnored ==
    [][(last'.op = "write_rich_string" /\ HasEmptyFragment(last'.value.rich)) =>
          /\ cells' = cells
          /\ hlinks' = hlinks]_vars

C19_Witness ==
    /\ last.op = "write_rich_string"
    /\ HasEmptyFragment(last.value.rich)
    /\ last.calls = 1
    /\ last.result.tag = "Err"
    /\ <<last.row, last.col>> \in DOMAIN cells
    /\ cells[<<last.row, last.col>>].kind = "number"

-----------------------------------------------------------------------------
\* The table that the last successful add_table appended.
LastTable == tables[Len(tables)]

AddedWith(options) ==
    /\ last.op = "add_table"
    /\ last.calls = 1
    /\ last.rc = LXW_NO_ERROR
    /\ last.options = options

\* The settings that a default TableOptions is said to describe.
DefaultTableSettings(settings) ==
    /\ settings.header_row /\ settings.autofilter /\ settings.banded_rows
    /\ ~settings.banded_columns /\ ~settings.first_column /\ ~settings.last_column
    /\ ~settings.total_row
    /\ ~settings.named /\ ~settings.has_columns
    /\ settings.style_type = enum_value(lxw_table_style_type, "LXW_TABLE_STYLE_TYPE_DEFAULT")

\* C20: TableOptions::default() has no name, no columns and the Default style
\* type, and a table added with it has the header row, the autofilter and the
\* banded rows on, and the banded columns, the first-column and last-column
\* highlights and the total row off; a table added with no options (None) has
\* the same settings as a table added with TableOptions::default().
C20_DefaultOptionsAndNoOptionsAgree ==
    /\ AddedWith(Some(TableOptions_default)) =>
           /\ TableOptions_default.name = None
           /\ TableOptions_default.columns = None
           /\ TableOptions_default.style_type = "Default"
           /\ DefaultTableSettings(LastTable.settings)
    /\ AddedWith(None) =>
           /\ DefaultTableSettings(LastTable.settings)
           /\ LastTable.settings =
                  table_settings(PtrTo(into_lxw_table_options(TableOptions_default, TRUE)))

\* A table added with no options is followed by one added with the default
\* options, and the two have the same settings.
C20_Witness ==
    /\ Len(tables) = 2
    /\ tables[1].options = NullPtr
    /\ AddedWith(Some(TableOptions_default))
    /\ tables[2].options # NullPtr
    /\ tables[1].settings = tables[2].settings

-----------------------------------------------------------------------------
\* The state of a row, set or not.
RowState(row) ==
    IF row \in DOMAIN row_options THEN row_options[row]
    ELSE [height |-> native_DEF_ROW_HEIGHT, format |-> NULL]

ColState(col) ==
    IF col \in DOMAIN col_options THEN col_options[col]
    ELSE [width |-> native_DEF_COL_WIDTH, format |-> NULL]

DefaultSized(op, size) == last.op = op /\ last.size = size /\ last.result = Ok

\* C21: the row that set_row(row, LXW_DEF_ROW_HEIGHT, f) or
\* set_row_pixels(row, LXW_DEF_ROW_HEIGHT_PIXELS, f) has just set has the format
\* f and the height LXW_DEF_ROW_HEIGHT, which is the height of a row that was
\* never set, so the two calls leave the row in the same state; likewise for
\* set_column with LXW_DEF_COL_WIDTH and set_column_pixels with
\* LXW_DEF_COL_WIDTH_PIXELS.
C21_DefaultPixelsAreDefaultSize ==
    /\ (\/ DefaultSized("set_row", [height |-> LXW_DEF_ROW_HEIGHT])
        \/ DefaultSized("set_row_pixels", [pixels |-> LXW_DEF_ROW_HEIGHT_PIXELS]))
       => /\ RowState(last.range[1]).height = LXW_DEF_ROW_HEIGHT
          /\ RowState(last.range[1]).height = native_DEF_ROW_HEIGHT
          /\ RowState(last.range[1]).format = format_ptr(last.format)
    /\ (\/ DefaultSized("set_column", [width |-> LXW_DEF_COL_WIDTH])
        \/ DefaultSized("set_column_pixels", [pixels |-> LXW_DEF_COL_WIDTH_PIXELS]))
       => \A c \in {last.range[1], last.range[2]} :
             /\ ColState(c).width = LXW_DEF_COL_WIDTH
             /\ ColState(c).width = native_DEF_COL_WIDTH
             /\ ColState(c).format = format_ptr(last.format)

-----------------------------------------------------------------------------
\* The string setters and the pointer field each of them assigns.
StringSetters ==
    [set_value_string |-> "value_string", set_min_value_string |-> "min_value_string",
     set_mid_value_string |-> "mid_value_string",
     set_max_value_string |-> "max_value_string", set_multi_range |-> "multi_range"]

\* The pointer field points to a still-allocated buffer with these bytes.
PointsToLive(rule, field, bytes) ==
    IF field = "value_string"
    THEN rule.value_string = PtrTo(bytes) /\ rule.string_value = Some(bytes)
    ELSE rule[field] = PtrTo([freed |-> FALSE, bytes |-> bytes])

\* The pointer field is null or points to a still-allocated buffer.
NullOrLive(rule, field) ==
    \/ rule[field] = NullPtr
    \/ /\ field = "value_string"
       /\ rule.string_value # None /\ rule.value_string = PtrTo(rule.string_value[1])
    \/ /\ field # "value_string"
       /\ ~rule[field][1].freed

\* C22: when one of the five string setters has returned, its pointer field is
\* null if the argument was None and otherwise points to a still-allocated copy
\* of the string with its NUL; and as long as the ConditionalFormat exists,
\* also when it is passed to conditional_format_cell, none of the five pointer
\* fields points to a freed buffer.
C22_StringPointersStayValid ==
    /\ (last.op \in DOMAIN StringSetters /\ last.result.tag = "Self") =>
           IF last.arg.value_string = None
           THEN cf[StringSetters[last.op]] = NullPtr
           ELSE PointsToLive(cf, StringSetters[last.op],
                             Append(last.arg.value_string[1], 0))
    /\ cf.exists =>
           \A op \in DOMAIN StringSetters : NullOrLive(cf, StringSetters[op])
    /\ last.op = "conditional_format_cell" =>
           \A op \in DOMAIN StringSetters : NullOrLive(last.rule, StringSetters[op])

\* The part of C22 that holds: the pointer of set_value_string, whose buffer
\* the ConditionalFormat owns.
C22_ValueStringStaysValid ==
    /\ (last.op = "set_value_string" /\ last.result.tag = "Self") =>
           IF last.arg.value_string = None
           THEN cf.value_string = NullPtr
           ELSE PointsToLive(cf, "value_string", Append(last.arg.value_string[1], 0))
    /\ cf.exists => NullOrLive(cf, "value_string")

-----------------------------------------------------------------------------
\* add_table made its native call with column metadata and the table was added.
AddedWithColumns ==
    /\ last.op = "add_table"
    /\ last.calls = 1
    /\ last.rc = LXW_NO_ERROR
    /\ last.options # None
    /\ last.options[1].columns # None

\* C23: when add_table has forwarded a table with column metadata, the
\* `columns` field of the native options points to an array that is not freed
\* and holds the converted record of each supplied TableColumn, one per column,
\* in input order.
C23_ColumnArrayIsLive ==
    AddedWithColumns =>
        LET given == last.options[1].columns[1]
            array == LastTable.options[1].columns[1]
        IN /\ ~array.freed
           /\ array.array = [i \in 1..Len(given) |-> to_lxw_table_column(given[i])]

-----------------------------------------------------------------------------
\* The width of the range of the last call, as a number: last_col - first_col + 1.
MathematicalWidth == last.rect[4] - last.rect[2] + 1

\* C24: for all 16-bit first_col and last_col, add_table with column metadata
\* does not panic in its column-count check (it panics for a string with a NUL
\* only), and a call whose number of columns
\* differs from the mathematical width last_col - first_col + 1 (so every call
\* with last_col < first_col, and every call with first_col = 0 and
\* last_col = 65535) returns an Err without a native call.
C24_WidthCheckDoesNotWrap ==
    TableWithColumns =>
        /\ last.result.tag = "Panic" =>
               \E t \in table_strings(last.options[1]) : HasNul(t)
        /\ (last.rect[4] < last.rect[2] \/ MathematicalWidth = U16_MODULUS) =>
               (last.result.tag = "Err" /\ last.calls = 0)
        /\ Len(last.options[1].columns[1]) # MathematicalWidth =>
               (last.result.tag = "Err" /\ last.calls = 0)

-----------------------------------------------------------------------------
\* The strings that a call was given.
StringsOf(call) ==
    CASE call.op = "write_string" -> {call.value.text}
      [] call.op = "write_formula" -> {call.value.formula}
      [] call.op = "write_url" -> {call.value.url}
      [] call.op = "write_rich_string" ->
             {call.value.rich[i][1] : i \in 1..Len(call.value.rich)}
      [] call.op = "merge_range" -> {call.value.text}
      [] OTHER -> {}

\* C25: a Result-returning operation that was given a string with an interior
\* NUL byte has returned an Err value (it has not panicked) and has made no
\* native call.
C25_NulIsReportedAsErr ==
    (\E t \in StringsOf(last) : HasNul(t)) =>
        (last.result.tag = "Err" /\ last.calls = 0)

-----------------------------------------------------------------------------
\* The fields of the rule that a setter is said to change.
OwnFieldsOf(op) ==
    CASE op = "set_conditional_type" -> {"type_"}
      [] op = "set_criteria" -> {"criteria"}
      [] op = "set_value" -> {"value"}
      [] op = "set_value_string" -> {"value_string", "string_value"}
      [] op = "set_min_value" -> {"min_value"}
      [] op = "set_max_value" -> {"max_value"}
      [] op = "set_min_rule_type" -> {"min_rule_type"}
      [] op = "set_bar_direction" -> {"bar_direction"}
      [] op = "set_multi_range" -> {"multi_range"}

\* The rule after a setter call.
Apply(rule, call) ==
    CASE call.op = "set_conditional_type" ->
             with_conditional_type(rule, call.arg.conditional_type)
      [] call.op = "set_criteria" -> with_criteria(rule, call.arg.criteria)
      [] call.op = "set_value" -> with_value(rule, call.arg.value)
      [] call.op = "set_value_string" -> with_value_string(rule, call.arg.value_string)
      [] call.op = "set_min_value" -> with_min_value(rule, call.arg.min_value)
      [] call.op = "set_max_value" -> with_max_value(rule, call.arg.max_value)
      [] call.op = "set_min_rule_type" -> with_min_rule_type(rule, call.arg.min_rule_type)
      [] call.op = "set_bar_direction" -> with_bar_direction(rule, call.arg.bar_direction)
      [] call.op = "set_multi_range" ->
             with_temporary_string(rule, "multi_range", call.arg.value_string)

SetterCall(op, arg) == [op |-> op, arg |-> arg]

SetterCalls ==
    {SetterCall("set_conditional_type", [conditional_type |-> t]) : t \in SetterTypes}
    \cup {SetterCall("set_criteria", [criteria |-> c]) : c \in SetterCriteria}
    \cup {SetterCall("set_value", [value |-> v]) : v \in SetterValues}
    \cup {SetterCall("set_value_string", [value_string |-> x]) : x \in SetterStrings}
    \cup {SetterCall("set_min_value", [min_value |-> v]) : v \in SetterValues}
    \cup {SetterCall("set_max_value", [max_value |-> v]) : v \in SetterValues}
    \cup {SetterCall("set_min_rule_type", [min_rule_type |-> t]) : t \in SetterRuleTypes}
    \cup {SetterCall("set_bar_direction", [bar_direction |-> d]) :
              d \in SetterBarDirections}
    \cup {SetterCall("set_multi_range", [value_string |-> x]) : x \in SetterStrings}

\* A setter step leaves every field that is not its own as it was.
SetterStep ==
    (cf.exists /\ last'.op \in {c.op : c \in SetterCalls}) =>
        /\ cf' = Apply(cf, SetterCall(last'.op, last'.arg))
        /\ \A f \in (DOMAIN cf) \ OwnFieldsOf(last'.op) : cf'[f] = cf[f]

\* From the rule as it is, two setters of different fields give the same rule
\* in either order, and of two calls of one setter the second decides.
SettersCommute ==
    cf.exists =>
        \A a \in SetterCalls :
            LET after_a == Apply(cf, a)
            IN /\ \A f \in (DOMAIN cf) \ OwnFieldsOf(a.op) : after_a[f] = cf[f]
               /\ \A b \in SetterCalls :
                      IF a.op # b.op
                      THEN Apply(after_a, b) = Apply(Apply(cf, b), a)
                      ELSE Apply(after_a, b) = Apply(cf, b)

\* C26: each builder setter changes only its own field of the rule
\* (set_value_string also the buffer the rule owns) and leaves every other
\* field as it was; two setters of different fields commute; of repeated calls
\* of one setter only the last value remains.
C26_SettersAreIndependent == [][SetterStep]_vars /\ []SettersCommute

\* A setter has acted on a rule whose other fields were set before it.
C26_Witness ==
    /\ cf.exists
    /\ last.op = "set_value" /\ last.arg.value = 150 /\ cf.value = 150
    /\ cf.criteria = ConditionalCriteria_value("TopOrBottomPercent")
    /\ cf.multi_range # NullPtr
    /\ cf.value_string # NullPtr
    /\ cf.min_value = 150

====
